---- MODULE Spec2Model ----
(***************************************************************************)
(* GlobeTrotter backend: the conversation repository (document store plus  *)
(* TTL cache), the trip and city routers with their authorization gate,    *)
(* and the blacklist service.                                              *)
(*                                                                         *)
(* Every action is one request handler, run to completion.  Each call a    *)
(* handler makes to the document store or to the cache may fail; the       *)
(* outcome of every call is an input of the action.  A failed call has no  *)
(* effect on the store or the cache.  The variable last records the        *)
(* handler that ran last: its arguments, the calls it made, what the       *)
(* repository returned and what the router answered.                       *)
(***************************************************************************)
EXTENDS Integers, Sequences, FiniteSets, Bags, TLC

VARIABLES convStore, convCache, trips, freeIds, cities, blacklist, admin_blacklist, last,
          tasks, acks, user_contexts, flow, clients

vars == <<convStore, convCache, trips, freeIds, cities, blacklist, admin_blacklist, last,
         tasks, acks, user_contexts, flow, clients>>

convVars == <<convStore, convCache>>
tripVars == <<trips, freeIds, cities>>
blVars == <<blacklist, admin_blacklist>>
\* the calls in progress on the event loop, and what they have answered
taskVars == <<tasks, acks>>
\* the context service's collection, the run of the workflow graph and the
\* client handles
ctxVars == <<user_contexts, flow, clients>>

(***************************************************************************)
(* Bounds                                                                  *)
(***************************************************************************)
MaxMsgs == 3
MaxActs == 1
MaxBl == 2

ConvKeys == {"k1"}
Msgs == {"m1", "m2"}

(***************************************************************************)
(* Conversation state: a JSON object with an optional "messages" array and *)
(* optional auxiliary keys (context, ui_actions, trip_plan), abstracted to *)
(* one context value.                                                      *)
(***************************************************************************)
ConvState(has_messages, messages, context) ==
    [has_messages |-> has_messages, messages |-> messages, context |-> context]

EmptyState == ConvState(FALSE, <<>>, "none")

\* conversations.py: initial_state = body.state or {"messages": [], "context": {}, ...}
DefaultInitialState == ConvState(TRUE, <<>>, "default")

InputStates ==
    { EmptyState,
      ConvState(TRUE, <<"m1">>, "c1"),
      ConvState(FALSE, <<>>, "c1") }

None == [none |-> TRUE]

\* the values a handler returns or takes that are no JSON object
Bool(b) == [bool |-> b]
List(seq) == [list |-> seq]
Message(m) == [message |-> m]
NoDoc == [nodoc |-> TRUE]
NoEntry == [noentry |-> TRUE]
ParseError == [parse_error |-> TRUE]

CONV_CACHE_TTL_SECONDS == 86400

Call(name, ok) == [c |-> name, ok |-> ok]

StoreCall(c) == c.c \in {"find_one", "update_one", "delete_one", "find_one_and_update", "insert_one", "find"}
CacheCall(c) == c.c \in {"redis.get", "redis.set", "redis.delete"}

(***************************************************************************)
(* json.dumps / json.loads on a conversation state, as a token sequence.   *)
(***************************************************************************)
json_dumps(state) ==
    <<"{">>
    \o (IF state.has_messages THEN <<"messages", "[">> \o state.messages \o <<"]">> ELSE <<>>)
    \o (IF state.context # "none" THEN <<"context", state.context>> ELSE <<>>)
    \o <<"}">>

json_loads(t) ==
    IF Len(t) < 2 \/ t[1] # "{" \/ t[Len(t)] # "}" THEN ParseError
    ELSE LET body == SubSeq(t, 2, Len(t) - 1)
             hasM == /\ Len(body) >= 3
                     /\ body[1] = "messages"
                     /\ body[2] = "["
                     /\ \E i \in 3..Len(body) : body[i] = "]"
             close == IF hasM
                      THEN CHOOSE i \in 3..Len(body) :
                               body[i] = "]" /\ \A j \in 3..(i - 1) : body[j] # "]"
                      ELSE 0
             msgs == IF hasM THEN SubSeq(body, 3, close - 1) ELSE <<>>
             rest == SubSeq(body, close + 1, Len(body))
         IN  IF rest = <<>> THEN ConvState(hasM, msgs, "none")
             ELSE IF Len(rest) = 2 /\ rest[1] = "context" THEN ConvState(hasM, msgs, rest[2])
             ELSE ParseError

\* redis.set(key, value, ex=...)
CacheSet(cache, k, state, ex) == [cache EXCEPT ![k] = [val |-> json_dumps(state), ex |-> ex]]

\* redis.delete(key)
CacheDelete(cache, k) == [cache EXCEPT ![k] = NoEntry]

\* `if cached:` followed by json.loads in a try block
CacheHit(cache, k) ==
    /\ cache[k] # NoEntry
    /\ cache[k].val # <<>>
    /\ json_loads(cache[k].val) # ParseError

(***************************************************************************)
(* MongoDB refuses an update whose operators name the same path            *)
(* (ConflictingUpdateOperators); the driver raises WriteError.             *)
(***************************************************************************)
UpdateConflicts(pathsA, pathsB) == pathsA \cap pathsB # {}

\* update_one({"_id": k}, {"$set": {"state": state}}, upsert=True)
SetStateUpsert(store, k, state) ==
    [store EXCEPT ![k] = IF store[k] = NoDoc
                         THEN [state |-> state, user_id |-> "none"]
                         ELSE [store[k] EXCEPT !.state = state]]

\* doc.get("state") or {}
DocState(doc) == doc.state

(***************************************************************************)
(* ConversationRepository: each method is an operator from the store, the  *)
(* cache and the outcome of each call to the method's outcome.             *)
(***************************************************************************)
Outcome(result, raised, store, cache, calls) ==
    [result |-> result, raised |-> raised, store |-> store, cache |-> cache, calls |-> calls]

\* repo_get without the cache refresh after a store hit
repo_get_no_refresh(store, cache, k, cr, sr, cw) ==
    IF ~cr THEN Outcome(None, TRUE, store, cache, <<Call("redis.get", FALSE)>>)
    ELSE IF CacheHit(cache, k)
    THEN Outcome(json_loads(cache[k].val), FALSE, store, cache, <<Call("redis.get", TRUE)>>)
    ELSE IF ~sr
    THEN Outcome(None, FALSE, store, cache, <<Call("redis.get", TRUE), Call("find_one", FALSE)>>)
    ELSE IF store[k] = NoDoc
    THEN Outcome(None, FALSE, store, cache, <<Call("redis.get", TRUE), Call("find_one", TRUE)>>)
    ELSE Outcome(DocState(store[k]), FALSE, store, cache,
                 <<Call("redis.get", TRUE), Call("find_one", TRUE), Call("redis.set", cw)>>)

repo_get(store, cache, k, cr, sr, cw) ==
    IF ~cr THEN Outcome(None, TRUE, store, cache, <<Call("redis.get", FALSE)>>)
    ELSE IF CacheHit(cache, k)
    THEN Outcome(json_loads(cache[k].val), FALSE, store, cache, <<Call("redis.get", TRUE)>>)
    ELSE IF ~sr
    THEN Outcome(None, FALSE, store, cache, <<Call("redis.get", TRUE), Call("find_one", FALSE)>>)
    ELSE IF store[k] = NoDoc
    THEN Outcome(None, FALSE, store, cache, <<Call("redis.get", TRUE), Call("find_one", TRUE)>>)
    ELSE Outcome(DocState(store[k]), FALSE, store,
                 IF cw THEN CacheSet(cache, k, DocState(store[k]), CONV_CACHE_TTL_SECONDS) ELSE cache,
                 <<Call("redis.get", TRUE), Call("find_one", TRUE), Call("redis.set", cw)>>)

\* repo_upsert writing the cache only after a successful store write
repo_upsert_store_first(store, cache, k, state, sw, cw) ==
    Outcome(None, FALSE,
            IF sw THEN SetStateUpsert(store, k, state) ELSE store,
            IF sw /\ cw THEN CacheSet(cache, k, state, CONV_CACHE_TTL_SECONDS) ELSE cache,
            <<Call("update_one", sw), Call("redis.set", cw)>>)

repo_upsert(store, cache, k, state, sw, cw) ==
    Outcome(None, FALSE,
            IF sw THEN SetStateUpsert(store, k, state) ELSE store,
            IF cw THEN CacheSet(cache, k, state, CONV_CACHE_TTL_SECONDS) ELSE cache,
            <<Call("update_one", sw), Call("redis.set", cw)>>)

\* {"$setOnInsert": {"_id", "state", "user_id"}, "$set": {"state"}}: the two
\* operators both name "state", so the store rejects the update.
repo_create_conversation(store, cache, k, state, user_id, sw, cw) ==
    LET ok == sw /\ ~UpdateConflicts({"_id", "state", "user_id"}, {"state"})
    IN  Outcome(None, FALSE,
                IF ok THEN [store EXCEPT ![k] = IF store[k] = NoDoc
                                                THEN [state |-> state, user_id |-> user_id]
                                                ELSE [store[k] EXCEPT !.state = state]]
                      ELSE store,
                IF cw THEN CacheSet(cache, k, state, CONV_CACHE_TTL_SECONDS) ELSE cache,
                <<Call("update_one", ok), Call("redis.set", cw)>>)

repo_delete(store, cache, k, sw, cw) ==
    Outcome(Bool(IF sw THEN store[k] # NoDoc ELSE TRUE), FALSE,
            IF sw THEN [store EXCEPT ![k] = NoDoc] ELSE store,
            IF cw THEN CacheDelete(cache, k) ELSE cache,
            <<Call("delete_one", sw), Call("redis.delete", cw)>>)

\* modified_count counts a document only when the $set changed it
repo_clear(store, cache, k, sw, cw) ==
    Outcome(Bool(IF sw THEN store[k] # NoDoc /\ store[k].state # EmptyState ELSE TRUE), FALSE,
            IF sw /\ store[k] # NoDoc THEN [store EXCEPT ![k].state = EmptyState] ELSE store,
            IF cw THEN CacheDelete(cache, k) ELSE cache,
            <<Call("update_one", sw), Call("redis.delete", cw)>>)

\* the conversation ids in the order of sort("_id")
ConvKeyOrder == <<"k1">>

\* ConversationRepository.list_by_user: the documents of the user in the order
\* of their ids, [] on any exception; the default limit of 20 is above the
\* number of conversation ids
repo_list_by_user(store, user_id, ok) ==
    LET owned(k) == store[k] # NoDoc /\ store[k].user_id = user_id
        found == SelectSeq(ConvKeyOrder, owned)
    IN  IF ~ok THEN <<>>
        ELSE [i \in 1..Len(found) |->
                 [conversation_id |-> found[i], has_state |-> store[found[i]].state # EmptyState]]

\* {"_id": k, "state.messages": {"$type": "array"}}
HasMessagesArray(store, k) == store[k] # NoDoc /\ store[k].state.has_messages

\* a $push that puts the message at the head of the list
PushMessageAtHead(store, k, m) == [store EXCEPT ![k].state.messages = <<m>> \o @]

PushMessage(store, k, m) == [store EXCEPT ![k].state.messages = Append(@, m)]

\* state.get("messages") or [] ; msgs.append(message) ; state["messages"] = msgs
StateAppend(state, m) == ConvState(TRUE, Append(state.messages, m), state.context)

repo_append_message(store, cache, k, m, push, init, find, cr, cw) ==
    IF push /\ HasMessagesArray(store, k)
    THEN LET s1 == PushMessage(store, k, m)
         IN  Outcome(DocState(s1[k]), FALSE, s1,
                     IF cw THEN CacheSet(cache, k, DocState(s1[k]), CONV_CACHE_TTL_SECONDS) ELSE cache,
                     <<Call("find_one_and_update", TRUE), Call("redis.set", cw)>>)
    ELSE IF init /\ find
    THEN LET s1 == SetStateUpsert(store, k, ConvState(TRUE, <<m>>, "none"))
         IN  Outcome(DocState(s1[k]), FALSE, s1,
                     IF cw THEN CacheSet(cache, k, DocState(s1[k]), CONV_CACHE_TTL_SECONDS) ELSE cache,
                     <<Call("find_one_and_update", push), Call("update_one", TRUE),
                       Call("find_one", TRUE), Call("redis.set", cw)>>)
    ELSE LET s1 == IF init THEN SetStateUpsert(store, k, ConvState(TRUE, <<m>>, "none")) ELSE store
             storeCalls == <<Call("find_one_and_update", push), Call("update_one", init)>>
                           \o (IF init THEN <<Call("find_one", FALSE)>> ELSE <<>>)
         IN  IF ~cr
             THEN Outcome(None, TRUE, s1, cache, storeCalls \o <<Call("redis.get", FALSE)>>)
             ELSE LET cached == IF CacheHit(cache, k) THEN json_loads(cache[k].val) ELSE EmptyState
                      state == StateAppend(cached, m)
                  IN  Outcome(state, FALSE, s1,
                              IF cw THEN CacheSet(cache, k, state, CONV_CACHE_TTL_SECONDS) ELSE cache,
                              storeCalls \o <<Call("redis.get", TRUE), Call("redis.set", cw)>>)

(***************************************************************************)
(* Authentication (auth.py): every request is resolved to the mock user.   *)
(***************************************************************************)
MOCK_USER == [id |-> "user123", is_admin |-> FALSE]

get_current_user == MOCK_USER

(***************************************************************************)
(* Trips.  A stored trip document has the fields of TripModel.dict(); the  *)
(* document key _id is the index of the document in trips.  Dates are ISO  *)
(* strings, ordered as in Dates.  datetime.utcnow() is the value "utcnow", *)
(* date.today().isoformat() the value "today".                             *)
(***************************************************************************)
TripIds == {"t1", "t2"}
InvalidObjectId == "not-an-object-id"

Dates == <<"2024-06-01", "2024-06-02", "2024-06-10", "2024-06-11">>
DateIndex(d) == CHOOSE i \in 1..Len(Dates) : Dates[i] = d
DateInRange(d, trip) ==
    /\ DateIndex(trip.start_date) <= DateIndex(d)
    /\ DateIndex(d) <= DateIndex(trip.end_date)

TripFields ==
    {"id", "name", "start_date", "end_date", "user_id", "is_public", "itinerary", "budget",
     "created_at", "updated_at"}
RequiredTripFields == {"name", "start_date", "end_date", "user_id"}

Day(date, activities) == [date |-> date, activities |-> activities]

\* TripModel(**body): the fields the body leaves out take their defaults
TripModel(fields_set, name, user_id, is_public, itinerary, id, created_at) ==
    [fields_set |-> RequiredTripFields \cup fields_set,
     id |-> IF "id" \in fields_set THEN id ELSE "generated-id",
     name |-> name,
     start_date |-> "2024-06-01",
     end_date |-> "2024-06-10",
     user_id |-> user_id,
     is_public |-> IF "is_public" \in fields_set THEN is_public ELSE FALSE,
     itinerary |-> IF "itinerary" \in fields_set THEN itinerary ELSE <<>>,
     budget |-> <<>>,
     created_at |-> IF "created_at" \in fields_set THEN created_at ELSE "utcnow",
     updated_at |-> IF "updated_at" \in fields_set THEN created_at ELSE "utcnow"]

TripPayloads ==
    { TripModel({}, "Euro Trip", "u1", FALSE, <<>>, "", ""),
      TripModel({"is_public"}, "Euro Trip", "user123", TRUE, <<>>, "", ""),
      TripModel({"itinerary", "id", "created_at", "updated_at"}, "Asia Trip", "user123", FALSE,
                <<Day("2024-06-02", <<>>)>>, "custom-id", "2020-01-01") }

\* trip_data.dict(): keyed by field name, so the key is "id" and never "_id"
TripDict(p) == [f \in TripFields |-> p[f]]

\* {"$set": data} restricted to the keys in fields
SetFields(doc, data, fields) ==
    [f \in DOMAIN doc |-> IF f \in fields THEN data[f] ELSE doc[f]]

\* ObjectId(trip_id) raises InvalidId unless trip_id is a 24-digit hex string
IsObjectId(trip_id) == trip_id \in TripIds

\* trip["id"] = str(trip["_id"])
TripView(trip_id, doc) == [f \in DOMAIN doc \cup {"_id"} |->
                              IF f \in {"id", "_id"} THEN trip_id ELSE doc[f]]

\* TripRepository.get_trip_by_id: any exception is answered None
get_trip_by_id(store, trip_id, ok) ==
    IF ~ok \/ ~IsObjectId(trip_id) THEN None
    ELSE IF store[trip_id] = NoDoc THEN None
    ELSE TripView(trip_id, store[trip_id])

\* an insert that stores no itinerary
NewTripDocWithoutItinerary(trip_dict) ==
    [trip_dict EXCEPT !["created_at"] = "utcnow", !["updated_at"] = "utcnow", !["itinerary"] = <<>>]

\* the stored document after TripRepository.create_trip's insert_one
NewTripDoc(trip_dict) ==
    [trip_dict EXCEPT !["created_at"] = "utcnow", !["updated_at"] = "utcnow"]

\* the $set of TripRepository.update_trip
UpdatedTripDoc(doc, p) ==
    SetFields(doc, [TripDict(p) EXCEPT !["updated_at"] = "utcnow"],
              ((p.fields_set \cup {"updated_at"}) \ {"created_at", "_id"}))

\* {"_id": ..., "itinerary.date": day_date}, {"$push": {"itinerary.$.activities": activity}}
HasDay(doc, day_date) == \E i \in 1..Len(doc.itinerary) : doc.itinerary[i].date = day_date

FirstDay(doc, day_date) ==
    CHOOSE i \in 1..Len(doc.itinerary) :
        /\ doc.itinerary[i].date = day_date
        /\ \A j \in 1..(i - 1) : doc.itinerary[j].date # day_date

PushActivity(doc, day_date, activity) ==
    [doc EXCEPT !["itinerary"] = [@ EXCEPT ![FirstDay(doc, day_date)].activities = Append(@, activity)],
                !["updated_at"] = "utcnow"]

Activities == [id : {"a1", "a2"}, name : {"Louvre"}, notes : {"none"}]

(***************************************************************************)
(* The record of the handler that ran last.                                *)
(***************************************************************************)
Log(op, key, arg, out, status) ==
    [op |-> op, key |-> key, arg |-> arg, result |-> out.result, raised |-> out.raised,
     calls |-> out.calls, status |-> status]

NoLog == [op |-> "none", key |-> "none", arg |-> None, result |-> None, raised |-> FALSE,
          calls |-> <<>>, status |-> 0]

\* an exception that leaves the handler is answered 500
Status(out, ok) == IF out.raised THEN 500 ELSE ok

(***************************************************************************)
(* Conversation router (api/endpoints/conversations.py).                   *)
(***************************************************************************)
ConvStep(op, k, arg, out, status) ==
    /\ convStore' = out.store
    /\ convCache' = out.cache
    /\ last' = Log(op, k, arg, out, status)
    /\ UNCHANGED <<tripVars, blVars, taskVars, ctxVars>>

\* The outcome of a call that the handler does not reach is no input: it is
\* fixed to TRUE, so that each behaviour of the handler is one step.
GetInputs(k, cr, sr, cw) ==
    /\ (~cr \/ CacheHit(convCache, k)) => (sr /\ cw)
    /\ (~sr \/ convStore[k] = NoDoc) => cw

AppendInputs(k, push, init, find, cr, cw) ==
    /\ (push /\ HasMessagesArray(convStore, k)) => (init /\ find /\ cr)
    /\ ~init => find
    /\ (init /\ find) => cr
    /\ ~cr => cw

get_conversation(k, cr, sr, cw) ==
    /\ GetInputs(k, cr, sr, cw)
    /\ LET out == repo_get(convStore, convCache, k, cr, sr, cw)
       IN  ConvStep("get", k, None, out, Status(out, IF out.result = None THEN 404 ELSE 200))

update_conversation(k, state, sw, cw) ==
    LET out == repo_upsert(convStore, convCache, k, state, sw, cw)
    IN  ConvStep("upsert", k, state, out, Status(out, 200))

create_conversation(k, state, user_id, sw, cw) ==
    LET initial_state == IF state = EmptyState THEN DefaultInitialState ELSE state
        out == repo_create_conversation(convStore, convCache, k, initial_state, user_id, sw, cw)
    IN  ConvStep("create_conversation", k, initial_state, out, Status(out, 200))

\* GET /api/conversations/?user_id=...
list_conversations(user_id, rd) ==
    LET rows == repo_list_by_user(convStore, user_id, rd)
        out == Outcome(List(rows), FALSE, convStore, convCache, <<Call("find", rd)>>)
    IN  ConvStep("list_by_user", user_id, None, out, Status(out, 200))

delete_conversation(k, sw, cw) ==
    LET out == repo_delete(convStore, convCache, k, sw, cw)
    IN  ConvStep("delete", k, None, out, Status(out, IF out.result.bool THEN 200 ELSE 404))

clear_conversation(k, sw, cw) ==
    LET out == repo_clear(convStore, convCache, k, sw, cw)
    IN  ConvStep("clear", k, None, out, Status(out, IF out.result.bool THEN 200 ELSE 404))

\* the stored and the cached message lists stay within MaxMsgs
RoomForMessage(k) ==
    /\ convStore[k] # NoDoc => Len(convStore[k].state.messages) < MaxMsgs
    /\ CacheHit(convCache, k) => Len(json_loads(convCache[k].val).messages) < MaxMsgs

append_message(k, m, push, init, find, cr, cw) ==
    /\ AppendInputs(k, push, init, find, cr, cw)
    /\ RoomForMessage(k)
    /\ LET out == repo_append_message(convStore, convCache, k, m, push, init, find, cr, cw)
       IN  ConvStep("append_message", k, Message(m), out, Status(out, 200))

\* the cache drops an entry when its time-to-live has run out
expire(k) ==
    /\ convCache[k] # NoEntry
    /\ convCache' = [convCache EXCEPT ![k] = NoEntry]
    /\ last' = [NoLog EXCEPT !.op = "expire", !.key = k]
    /\ UNCHANGED <<convStore, tripVars, blVars, taskVars, ctxVars>>

(***************************************************************************)
(* Trip router (api/endpoints/trips.py).                                   *)
(***************************************************************************)
TripOut(result, raised, calls, status, store, free) ==
    [result |-> result, raised |-> raised, calls |-> calls, status |-> status,
     store |-> store, free |-> free]

TripStep(op, trip_id, arg, out) ==
    /\ trips' = out.store
    /\ freeIds' = out.free
    /\ last' = [op |-> op, key |-> trip_id, arg |-> arg, result |-> out.result,
                raised |-> out.raised, calls |-> out.calls, status |-> out.status]
    /\ UNCHANGED <<cities, convVars, blVars, taskVars, ctxVars>>

\* a gate that checks existence alone
OwnerGateExistenceOnly(trip) == IF trip = None THEN 404 ELSE 200

\* the existence and ownership checks that open every trip-mutating handler
OwnerGate(trip) ==
    IF trip = None THEN 404
    ELSE IF trip.user_id # get_current_user.id THEN 403
    ELSE 200

\* a read gate that admits the owner alone
ReadGateOwnerOnly(trip) == OwnerGate(trip)

\* the checks of the read handlers, which also admit a public trip
ReadGate(trip) ==
    IF trip = None THEN 404
    ELSE IF trip.user_id # get_current_user.id /\ ~trip.is_public THEN 403
    ELSE 200

create_trip_out(p, ins, rd) ==
    LET trip_id == CHOOSE t \in freeIds : TRUE
        trip_dict == [TripDict(p) EXCEPT !["user_id"] = get_current_user.id,
                                         !["created_at"] = "today",
                                         !["updated_at"] = "today"]
        store == [trips EXCEPT ![trip_id] = NewTripDoc(trip_dict)]
        created == get_trip_by_id(store, trip_id, rd)
    IN  IF ~ins
        THEN TripOut(None, TRUE, <<Call("insert_one", FALSE)>>, 500, trips, freeIds)
        ELSE TripOut(created, FALSE, <<Call("insert_one", TRUE), Call("find_one", rd)>>,
                     IF created = None THEN 400 ELSE 201, store, freeIds \ {trip_id})

create_trip(p, ins, rd) ==
    /\ freeIds # {}
    /\ ~ins => rd
    /\ TripStep("create_trip", CHOOSE t \in freeIds : TRUE, p, create_trip_out(p, ins, rd))

get_trip_out(trip_id, rd) ==
    LET trip == get_trip_by_id(trips, trip_id, rd)
        gate == ReadGate(trip)
    IN  TripOut(IF gate = 200 THEN trip ELSE None, FALSE, <<Call("find_one", rd)>>, gate,
                trips, freeIds)

get_trip(trip_id, rd) == TripStep("get_trip", trip_id, None, get_trip_out(trip_id, rd))

\* trip.get("cities", []): a trip has no cities key until a city is pushed
TripCities(trip) == IF "cities" \in DOMAIN trip THEN trip["cities"] ELSE <<>>

get_trip_cities_out(trip_id, rd) ==
    LET trip == get_trip_by_id(trips, trip_id, rd)
        gate == ReadGate(trip)
    IN  TripOut(IF gate = 200 THEN List(TripCities(trip)) ELSE None, FALSE, <<Call("find_one", rd)>>, gate,
                trips, freeIds)

get_trip_cities(trip_id, rd) ==
    TripStep("get_trip_cities", trip_id, None, get_trip_cities_out(trip_id, rd))

update_trip_out(trip_id, p, rd, wr) ==
    LET existing == get_trip_by_id(trips, trip_id, rd)
        gate == OwnerGate(existing)
        store == [trips EXCEPT ![trip_id] = UpdatedTripDoc(trips[trip_id], p)]
    IN  IF gate # 200
        THEN TripOut(None, FALSE, <<Call("find_one", rd)>>, gate, trips, freeIds)
        ELSE IF ~wr
        THEN TripOut(None, TRUE, <<Call("find_one", TRUE), Call("find_one_and_update", FALSE)>>,
                     500, trips, freeIds)
        ELSE TripOut(TripView(trip_id, store[trip_id]), FALSE,
                     <<Call("find_one", TRUE), Call("find_one_and_update", TRUE)>>,
                     200, store, freeIds)

\* the outcome of the write is an input only when the handler reaches it
ReachesWrite(trip_id, rd) == OwnerGate(get_trip_by_id(trips, trip_id, rd)) = 200

update_trip(trip_id, p, rd, wr) ==
    /\ ~ReachesWrite(trip_id, rd) => wr
    /\ TripStep("update_trip", trip_id, p, update_trip_out(trip_id, p, rd, wr))

delete_trip_out(trip_id, rd, wr) ==
    LET existing == get_trip_by_id(trips, trip_id, rd)
        gate == OwnerGate(existing)
    IN  IF gate # 200
        THEN TripOut(None, FALSE, <<Call("find_one", rd)>>, gate, trips, freeIds)
        ELSE IF ~wr
        THEN TripOut(None, TRUE, <<Call("find_one", TRUE), Call("delete_one", FALSE)>>,
                     500, trips, freeIds)
        ELSE TripOut(None, FALSE, <<Call("find_one", TRUE), Call("delete_one", TRUE)>>,
                     204, [trips EXCEPT ![trip_id] = NoDoc], freeIds)

delete_trip(trip_id, rd, wr) ==
    /\ ~ReachesWrite(trip_id, rd) => wr
    /\ TripStep("delete_trip", trip_id, None, delete_trip_out(trip_id, rd, wr))

add_activity_to_day_out(trip_id, day_date, activity, rd, wr) ==
    LET trip == get_trip_by_id(trips, trip_id, rd)
        gate == OwnerGate(trip)
        store == [trips EXCEPT ![trip_id] = PushActivity(trips[trip_id], day_date, activity)]
    IN  IF gate # 200
        THEN TripOut(None, FALSE, <<Call("find_one", rd)>>, gate, trips, freeIds)
        ELSE IF ~wr
        THEN TripOut(None, TRUE, <<Call("find_one", TRUE), Call("find_one_and_update", FALSE)>>,
                     500, trips, freeIds)
        ELSE IF ~HasDay(trips[trip_id], day_date)
        THEN TripOut(None, FALSE, <<Call("find_one", TRUE), Call("find_one_and_update", TRUE)>>,
                     400, trips, freeIds)
        ELSE TripOut(TripView(trip_id, store[trip_id]), FALSE,
                     <<Call("find_one", TRUE), Call("find_one_and_update", TRUE)>>,
                     200, store, freeIds)

\* no day of a stored itinerary grows beyond MaxActs
RoomForActivity(trip_id, day_date) ==
    (IsObjectId(trip_id) /\ trips[trip_id] # NoDoc) =>
        \A i \in 1..Len(trips[trip_id].itinerary) :
            Len(trips[trip_id].itinerary[i].activities) < MaxActs

add_activity_to_day(trip_id, day_date, activity, rd, wr) ==
    /\ RoomForActivity(trip_id, day_date)
    /\ ~ReachesWrite(trip_id, rd) => wr
    /\ TripStep("add_activity_to_day", trip_id, [day_date |-> day_date, activity |-> activity],
                add_activity_to_day_out(trip_id, day_date, activity, rd, wr))

(***************************************************************************)
(* City router (api/endpoints/cities.py): delete.                          *)
(***************************************************************************)
CityIds == {"c1", "c2"}

\* the catalog is filled by the administrators' seeding, outside the routers
SeedCities == {"c1"}

\* a stored city document: the fields of CityModel.dict()
SeedCity ==
    [name |-> "Paris", country |-> "France", is_featured |-> FALSE,
     created_at |-> "seeded", updated_at |-> "seeded"]

\* a gate that admits every authenticated requester
AdminGateOpen(current_user) == IF current_user = None THEN 403 ELSE 200

\* if not current_user.get("is_admin", False): raise HTTPException(403)
AdminGate(current_user) == IF ~current_user.is_admin THEN 403 ELSE 200

CityOut(result, raised, calls, status, store) ==
    [result |-> result, raised |-> raised, calls |-> calls, status |-> status, store |-> store]

CityStep(op, city_id, arg, out) ==
    /\ cities' = out.store
    /\ last' = [op |-> op, key |-> city_id, arg |-> arg, result |-> out.result,
                raised |-> out.raised, calls |-> out.calls, status |-> out.status]
    /\ UNCHANGED <<trips, freeIds, convVars, blVars, taskVars, ctxVars>>

CityAbsent(store, city_id) == ~(city_id \in CityIds) \/ store[city_id] = NoDoc

\* DELETE /api/cities/{city_id}; ObjectId(city_id) raises on an invalid id
delete_city_out(current_user, city_id, wr) ==
    IF AdminGate(current_user) # 200
    THEN CityOut(None, FALSE, <<>>, AdminGate(current_user), cities)
    ELSE IF ~wr \/ ~(city_id \in CityIds)
    THEN CityOut(None, TRUE, <<Call("delete_one", FALSE)>>, 500, cities)
    ELSE CityOut(None, FALSE, <<Call("delete_one", TRUE)>>,
                 IF cities[city_id] # NoDoc THEN 204 ELSE 404,
                 [cities EXCEPT ![city_id] = NoDoc])

delete_city(city_id, wr) ==
    /\ AdminGate(get_current_user) # 200 => wr
    /\ CityStep("delete_city", city_id, None, delete_city_out(get_current_user, city_id, wr))

(***************************************************************************)
(* Trip router, nested records: activities, budget items and cities of a   *)
(* trip (api/endpoints/trips.py, repositories/trip_repository.py).         *)
(***************************************************************************)
MaxItems == 1

BudgetItems == [id : {"b1"}, name : {"Hotel"}, paid : {FALSE}]

\* budget_item.dict(exclude_unset=True): the fields the body supplies
BudgetUpdates == {[name |-> "Hostel"], [name |-> "Hotel", paid |-> TRUE]}

\* activity_data.dict(exclude_unset=True)
ActivityUpdates == {[name |-> "Orsay"]}

\* city_item built by TripRepository.add_city_to_trip
CityItems == [city_id : {"c1"}, name : {"Paris"}, added_at : {"utcnow"}]

\* {"$set": {prefix.k: v for k, v in data.items()}} on one nested record
SetItemFields(item, data) ==
    [f \in DOMAIN item \cup DOMAIN data |-> IF f \in DOMAIN data THEN data[f] ELSE item[f]]

\* {"$pull": {array: {key: v}}}: every element whose key equals v is removed
PullByKey(seq, key, v) ==
    LET keep(e) == e[key] # v
    IN  SelectSeq(seq, keep)

DayHasActivity(day, activity_id) ==
    \E j \in 1..Len(day.activities) : day.activities[j].id = activity_id

\* {"itinerary.activities.id": activity_id}
HasActivity(doc, activity_id) ==
    \E i \in 1..Len(doc.itinerary) : DayHasActivity(doc.itinerary[i], activity_id)

\* The filter of update_activity names two conditions on the itinerary array;
\* the positional $ is the first element matching one of them, the store
\* does not say which.
PositionalDays(doc, day_date, activity_id) ==
    {FirstDay(doc, day_date),
     CHOOSE i \in 1..Len(doc.itinerary) :
         /\ DayHasActivity(doc.itinerary[i], activity_id)
         /\ \A j \in 1..(i - 1) : ~DayHasActivity(doc.itinerary[j], activity_id)}

\* "$set": {"itinerary.$.activities.$[activity].k": v}, array_filters activity.id
SetActivityFields(doc, pos, activity_id, data) ==
    [doc EXCEPT !["itinerary"] =
            [@ EXCEPT ![pos].activities =
                 [j \in 1..Len(@) |-> IF @[j].id = activity_id
                                      THEN SetItemFields(@[j], data) ELSE @[j]]],
                !["updated_at"] = "utcnow"]

\* {"$pull": {"itinerary.$.activities": {"id": activity_id}}}
PullActivity(doc, day_date, activity_id) ==
    [doc EXCEPT !["itinerary"] =
            [@ EXCEPT ![FirstDay(doc, day_date)].activities = PullByKey(@, "id", activity_id)],
                !["updated_at"] = "utcnow"]

\* {"$push": {"budget": budget_item}}
PushBudgetItem(doc, budget_item) ==
    [doc EXCEPT !["budget"] = Append(@, budget_item), !["updated_at"] = "utcnow"]

\* {"budget.id": item_id}
HasBudgetItem(doc, item_id) == \E i \in 1..Len(doc.budget) : doc.budget[i].id = item_id

FirstBudgetItem(doc, item_id) ==
    CHOOSE i \in 1..Len(doc.budget) :
        /\ doc.budget[i].id = item_id
        /\ \A j \in 1..(i - 1) : doc.budget[j].id # item_id

\* {"$set": {"budget.$.k": v, ..., "updated_at": now}}
SetBudgetItemFields(doc, item_id, update_data) ==
    [doc EXCEPT !["budget"] =
            [@ EXCEPT ![FirstBudgetItem(doc, item_id)] = SetItemFields(@, update_data)],
                !["updated_at"] = "utcnow"]

\* {"$pull": {"budget": {"id": item_id}}}
PullBudgetItem(doc, item_id) ==
    [doc EXCEPT !["budget"] = PullByKey(@, "id", item_id), !["updated_at"] = "utcnow"]

\* {"$push": {"cities": city_item}}: the array is created by the first push
PushCity(doc, city_item) ==
    [f \in DOMAIN doc \cup {"cities"} |->
        IF f = "cities" THEN Append(TripCities(doc), city_item)
        ELSE IF f = "updated_at" THEN "utcnow" ELSE doc[f]]

\* {"$pull": {"cities": {"city_id": city_id}}}
PullCity(doc, city_id) ==
    [f \in DOMAIN doc |->
        IF f = "cities" THEN PullByKey(doc[f], "city_id", city_id)
        ELSE IF f = "updated_at" THEN "utcnow" ELSE doc[f]]

\* What every handler that changes a trip with one store write does: the
\* existence and ownership checks, the write, 400 when the write matched
\* nothing.
MutationOut(trip_id, rd, wr, call, matched, doc, result, ok_status) ==
    LET gate == OwnerGate(get_trip_by_id(trips, trip_id, rd))
        calls == <<Call("find_one", TRUE), Call(call, wr)>>
    IN  IF gate # 200
        THEN TripOut(None, FALSE, <<Call("find_one", rd)>>, gate, trips, freeIds)
        ELSE IF ~wr THEN TripOut(None, TRUE, calls, 500, trips, freeIds)
        ELSE IF ~matched THEN TripOut(None, FALSE, calls, 400, trips, freeIds)
        ELSE TripOut(result, FALSE, calls, ok_status, [trips EXCEPT ![trip_id] = doc], freeIds)

\* PUT /{trip_id}/days/{day_date}/activities/{activity_id}
update_activity_out(trip_id, day_date, activity_id, activity_data, pos, rd, rd2, wr, rd3) ==
    LET gate == OwnerGate(get_trip_by_id(trips, trip_id, rd))
        doc == trips[trip_id]
        update_data == SetItemFields(activity_data, [updated_at |-> "utcnow"])
        store == [trips EXCEPT ![trip_id] = SetActivityFields(doc, pos, activity_id, update_data)]
        reads == <<Call("find_one", TRUE), Call("find_one", rd2)>>
    IN  IF gate # 200
        THEN TripOut(None, FALSE, <<Call("find_one", rd)>>, gate, trips, freeIds)
        ELSE IF ~rd2 \/ ~HasDay(doc, day_date)
        THEN TripOut(None, FALSE, reads, 400, trips, freeIds)
        ELSE IF ~wr
        THEN TripOut(None, TRUE, reads \o <<Call("update_one", FALSE)>>, 500, trips, freeIds)
        ELSE IF ~HasActivity(doc, activity_id)
        THEN TripOut(None, FALSE, reads \o <<Call("update_one", TRUE)>>, 400, trips, freeIds)
        ELSE TripOut(get_trip_by_id(store, trip_id, rd3), FALSE,
                     reads \o <<Call("update_one", TRUE), Call("find_one", rd3)>>,
                     IF rd3 THEN 200 ELSE 400, store, freeIds)

\* the update reaches the store write with a day and an activity to address
ReachesActivityWrite(trip_id, day_date, activity_id, rd, rd2) ==
    /\ ReachesWrite(trip_id, rd)
    /\ rd2
    /\ HasDay(trips[trip_id], day_date)
    /\ HasActivity(trips[trip_id], activity_id)

update_activity(trip_id, day_date, activity_id, activity_data, pos, rd, rd2, wr, rd3) ==
    /\ ~ReachesWrite(trip_id, rd) => rd2
    /\ ~(ReachesWrite(trip_id, rd) /\ rd2 /\ HasDay(trips[trip_id], day_date)) => wr
    /\ ~(ReachesActivityWrite(trip_id, day_date, activity_id, rd, rd2) /\ wr) => rd3
    /\ IF ReachesActivityWrite(trip_id, day_date, activity_id, rd, rd2)
       THEN pos \in PositionalDays(trips[trip_id], day_date, activity_id)
       ELSE pos = 1
    /\ TripStep("update_activity", trip_id,
                [day_date |-> day_date, activity_id |-> activity_id, data |-> activity_data],
                update_activity_out(trip_id, day_date, activity_id, activity_data, pos,
                                    rd, rd2, wr, rd3))

\* DELETE /{trip_id}/days/{day_date}/activities/{activity_id}
delete_activity_out(trip_id, day_date, activity_id, rd, wr) ==
    MutationOut(trip_id, rd, wr, "update_one", HasDay(trips[trip_id], day_date),
                PullActivity(trips[trip_id], day_date, activity_id), None, 204)

delete_activity(trip_id, day_date, activity_id, rd, wr) ==
    /\ ~ReachesWrite(trip_id, rd) => wr
    /\ TripStep("delete_activity", trip_id, [day_date |-> day_date, activity_id |-> activity_id],
                delete_activity_out(trip_id, day_date, activity_id, rd, wr))

\* the budget and the cities of a stored trip stay within MaxItems
RoomForItem(trip_id) ==
    (IsObjectId(trip_id) /\ trips[trip_id] # NoDoc) =>
        /\ Len(trips[trip_id].budget) < MaxItems
        /\ Len(TripCities(trips[trip_id])) < MaxItems

\* POST /{trip_id}/budget
add_budget_item_out(trip_id, budget_item, rd, wr) ==
    LET doc == PushBudgetItem(trips[trip_id], budget_item)
    IN  MutationOut(trip_id, rd, wr, "find_one_and_update", TRUE, doc, TripView(trip_id, doc), 200)

add_budget_item(trip_id, budget_item, rd, wr) ==
    /\ RoomForItem(trip_id)
    /\ ~ReachesWrite(trip_id, rd) => wr
    /\ TripStep("add_budget_item", trip_id, budget_item,
                add_budget_item_out(trip_id, budget_item, rd, wr))

\* PUT /{trip_id}/budget/{item_id}
update_budget_item_out(trip_id, item_id, update_data, rd, wr, rd3) ==
    LET gate == OwnerGate(get_trip_by_id(trips, trip_id, rd))
        doc == trips[trip_id]
        store == [trips EXCEPT ![trip_id] = SetBudgetItemFields(doc, item_id, update_data)]
    IN  IF gate # 200
        THEN TripOut(None, FALSE, <<Call("find_one", rd)>>, gate, trips, freeIds)
        ELSE IF ~wr
        THEN TripOut(None, TRUE, <<Call("find_one", TRUE), Call("update_one", FALSE)>>, 500,
                     trips, freeIds)
        ELSE IF ~HasBudgetItem(doc, item_id)
        THEN TripOut(None, FALSE, <<Call("find_one", TRUE), Call("update_one", TRUE)>>, 400,
                     trips, freeIds)
        ELSE TripOut(get_trip_by_id(store, trip_id, rd3), FALSE,
                     <<Call("find_one", TRUE), Call("update_one", TRUE), Call("find_one", rd3)>>,
                     IF rd3 THEN 200 ELSE 400, store, freeIds)

update_budget_item(trip_id, item_id, update_data, rd, wr, rd3) ==
    /\ ~ReachesWrite(trip_id, rd) => wr
    /\ ~(ReachesWrite(trip_id, rd) /\ wr /\ HasBudgetItem(trips[trip_id], item_id)) => rd3
    /\ TripStep("update_budget_item", trip_id, [item_id |-> item_id, data |-> update_data],
                update_budget_item_out(trip_id, item_id, update_data, rd, wr, rd3))

\* DELETE /{trip_id}/budget/{item_id}: the $set of updated_at modifies the
\* document whether or not an item was pulled
delete_budget_item_out(trip_id, item_id, rd, wr) ==
    MutationOut(trip_id, rd, wr, "update_one", TRUE, PullBudgetItem(trips[trip_id], item_id),
                None, 204)

delete_budget_item(trip_id, item_id, rd, wr) ==
    /\ ~ReachesWrite(trip_id, rd) => wr
    /\ TripStep("delete_budget_item", trip_id, [item_id |-> item_id],
                delete_budget_item_out(trip_id, item_id, rd, wr))

\* POST /{trip_id}/cities
add_city_to_trip_out(trip_id, city_item, rd, wr) ==
    LET doc == PushCity(trips[trip_id], city_item)
    IN  MutationOut(trip_id, rd, wr, "find_one_and_update", TRUE, doc, TripView(trip_id, doc), 200)

add_city_to_trip(trip_id, city_item, rd, wr) ==
    /\ RoomForItem(trip_id)
    /\ ~ReachesWrite(trip_id, rd) => wr
    /\ TripStep("add_city_to_trip", trip_id, city_item,
                add_city_to_trip_out(trip_id, city_item, rd, wr))

\* DELETE /{trip_id}/cities/{city_id}
remove_city_from_trip_out(trip_id, city_id, rd, wr) ==
    MutationOut(trip_id, rd, wr, "update_one", TRUE, PullCity(trips[trip_id], city_id), None, 204)

remove_city_from_trip(trip_id, city_id, rd, wr) ==
    /\ ~ReachesWrite(trip_id, rd) => wr
    /\ TripStep("remove_city_from_trip", trip_id, [city_id |-> city_id],
                remove_city_from_trip_out(trip_id, city_id, rd, wr))

(***************************************************************************)
(* City router and repository: create and update.                          *)
(***************************************************************************)
\* city_data.dict(exclude_unset=True) of a valid CityModel body
CityPayloads ==
    {[name |-> "Paris", country |-> "France"],
     [name |-> "paris", country |-> "France", is_featured |-> TRUE]}

\* update_data of a direct CityRepository.update_city call
CityUpdates == {[name |-> "Lutetia"], [is_featured |-> TRUE], [country |-> "Gaul", created_at |-> "1970"]}

\* {"$regex": f"^{name}$", "$options": "i"} on the names of CityPayloads
MatchesIgnoringCase(value, name) == value = name \/ {value, name} = {"Paris", "paris"}

\* CityRepository.get_city_by_name_and_country
CityByNameAndCountry(store, name, country) ==
    {c \in CityIds : /\ store[c] # NoDoc
                     /\ MatchesIgnoringCase(store[c].name, name)
                     /\ MatchesIgnoringCase(store[c].country, country)}

\* CityModel(**city_data).dict() with the timestamps create_city sets
NewCityDoc(city_data) ==
    [name |-> city_data.name, country |-> city_data.country,
     is_featured |-> IF "is_featured" \in DOMAIN city_data THEN city_data.is_featured ELSE FALSE,
     created_at |-> "utcnow", updated_at |-> "utcnow"]

\* {**existing, **update_data} after the pops and with updated_at set
MergedCity(existing, update_data) ==
    LET kept == DOMAIN update_data \ {"created_at", "_id"}
    IN  [f \in DOMAIN existing |->
            IF f = "updated_at" THEN "utcnow"
            ELSE IF f \in kept THEN update_data[f] ELSE existing[f]]

\* CityRepository.update_city: read the document, validate the merged data,
\* write every field of the merged document.  valid is the verdict of
\* CityModel(**updated_data) on the merged data.
repo_update_city(store, city_id, update_data, rd, valid, wr) ==
    IF ~rd \/ CityAbsent(store, city_id)
    THEN CityOut(None, FALSE, <<Call("find_one", rd)>>, 404, store)
    ELSE IF ~valid
    THEN CityOut(None, TRUE, <<Call("find_one", TRUE)>>, 500, store)
    ELSE IF ~wr
    THEN CityOut(None, TRUE, <<Call("find_one", TRUE), Call("find_one_and_update", FALSE)>>,
                 500, store)
    ELSE LET doc == MergedCity(store[city_id], update_data)
         IN  CityOut(doc, FALSE, <<Call("find_one", TRUE), Call("find_one_and_update", TRUE)>>,
                     200, [store EXCEPT ![city_id] = doc])

\* the verdict and the write are inputs only when the call reaches them
UpdateCityInputs(city_id, rd, valid, wr) ==
    /\ (~rd \/ CityAbsent(cities, city_id)) => valid
    /\ (~rd \/ CityAbsent(cities, city_id) \/ ~valid) => wr

\* the repository method called on its own; the router reaches it only for
\* an administrator
city_repository_update_city(city_id, update_data, rd, valid, wr) ==
    /\ UpdateCityInputs(city_id, rd, valid, wr)
    /\ CityStep("repo_update_city", city_id, update_data,
                repo_update_city(cities, city_id, update_data, rd, valid, wr))

\* PUT /api/cities/{city_id}
update_city_out(current_user, city_id, city_data, rd, valid, wr) ==
    IF AdminGate(current_user) # 200
    THEN CityOut(None, FALSE, <<>>, AdminGate(current_user), cities)
    ELSE repo_update_city(cities, city_id, city_data, rd, valid, wr)

update_city(city_id, city_data, rd, valid, wr) ==
    /\ AdminGate(get_current_user) # 200 => (rd /\ valid /\ wr)
    /\ AdminGate(get_current_user) = 200 => UpdateCityInputs(city_id, rd, valid, wr)
    /\ CityStep("update_city", city_id, city_data,
                update_city_out(get_current_user, city_id, city_data, rd, valid, wr))

\* POST /api/cities/
create_city_out(current_user, city_data, rd, ins, rd2) ==
    LET city_id == CHOOSE c \in CityIds : cities[c] = NoDoc
        store == [cities EXCEPT ![city_id] = NewCityDoc(city_data)]
    IN  IF AdminGate(current_user) # 200
        THEN CityOut(None, FALSE, <<>>, AdminGate(current_user), cities)
        ELSE IF ~rd
        THEN CityOut(None, TRUE, <<Call("find_one", FALSE)>>, 500, cities)
        ELSE IF CityByNameAndCountry(cities, city_data.name, city_data.country) # {}
        THEN CityOut(None, FALSE, <<Call("find_one", TRUE)>>, 400, cities)
        ELSE IF ~ins
        THEN CityOut(None, TRUE, <<Call("find_one", TRUE), Call("insert_one", FALSE)>>, 500, cities)
        ELSE CityOut(IF rd2 THEN store[city_id] ELSE None, FALSE,
                     <<Call("find_one", TRUE), Call("insert_one", TRUE), Call("find_one", rd2)>>,
                     IF rd2 THEN 201 ELSE 400, store)

create_city(city_data, rd, ins, rd2) ==
    /\ AdminGate(get_current_user) # 200 => (rd /\ ins /\ rd2)
    /\ AdminGate(get_current_user) = 200 => \E c \in CityIds : cities[c] = NoDoc
    /\ CityStep("create_city", "none", city_data,
                create_city_out(get_current_user, city_data, rd, ins, rd2))

(***************************************************************************)
(* Blacklist service (services/blacklist_service.py).  A name is a         *)
(* sequence of characters; a collection is a bag of entries.               *)
(***************************************************************************)
BlacklistType == {"hotel", "city", "activity", "restaurant"}
ItemTypes == {"hotel", "city"}
BlUsers == {"u1", "u2"}

NameHx == <<"H", "x">>
NameHxPadded == <<" ", "h", "X", " ">>
NameY == <<"y">>
NameHxy == <<"H", "x", "y">>

ItemNames == {NameHx, NameHxPadded, NameY}
HotelLists ==
    { <<>>, <<NameHx>>, <<NameY, NameHxPadded>>, <<NameHxy, NameY>>, <<NameHx, NameHx>> }

\* str.lower()
LowerChar(c) == IF c = "H" THEN "h" ELSE IF c = "X" THEN "x" ELSE IF c = "Y" THEN "y" ELSE c
lower(name) == [i \in 1..Len(name) |-> LowerChar(name[i])]

\* str.strip()
strip(name) ==
    LET inked == {i \in 1..Len(name) : name[i] # " "}
    IN  IF inked = {} THEN <<>>
        ELSE SubSeq(name,
                    CHOOSE i \in inked : \A j \in inked : i <= j,
                    CHOOSE i \in inked : \A j \in inked : j <= i)

\* item_name.lower().strip()
NormalizedName(name) == strip(lower(name))

\* the Python test `a in b` on strings
IsSubstring(a, b) ==
    \E i \in 0..(Len(b) - Len(a)) : SubSeq(b, i + 1, i + Len(a)) = a

BlEntry(user_id, item_name, item_type, is_admin) ==
    [user_id |-> IF is_admin THEN "admin" ELSE user_id,
     item_name |-> NormalizedName(item_name),
     item_type |-> item_type]

BagAdd(bag, e) == bag (+) SetToBag({e})
BagRemoveOne(bag, e) == bag (-) SetToBag({e})

BlOut(result, calls, user, admin) ==
    [result |-> result, calls |-> calls, user |-> user, admin |-> admin]

\* add_to_blacklist without the lookup of an existing entry
bl_add_unchecked(user, admin, user_id, item_name, item_type, is_admin, find, ins) ==
    LET e == BlEntry(user_id, item_name, item_type, is_admin)
    IN  IF ~find THEN BlOut(Bool(FALSE), <<Call("find_one", FALSE)>>, user, admin)
        ELSE IF ~ins
        THEN BlOut(Bool(FALSE), <<Call("find_one", TRUE), Call("insert_one", FALSE)>>, user, admin)
        ELSE BlOut(Bool(TRUE), <<Call("find_one", TRUE), Call("insert_one", TRUE)>>,
                   IF is_admin THEN user ELSE BagAdd(user, e),
                   IF is_admin THEN BagAdd(admin, e) ELSE admin)

\* BlacklistService.add_to_blacklist: every exception is answered False
bl_add(user, admin, user_id, item_name, item_type, is_admin, find, ins) ==
    LET e == BlEntry(user_id, item_name, item_type, is_admin)
        collection == IF is_admin THEN admin ELSE user
    IN  IF ~find THEN BlOut(Bool(FALSE), <<Call("find_one", FALSE)>>, user, admin)
        ELSE IF BagIn(e, collection) THEN BlOut(Bool(FALSE), <<Call("find_one", TRUE)>>, user, admin)
        ELSE IF ~ins
        THEN BlOut(Bool(FALSE), <<Call("find_one", TRUE), Call("insert_one", FALSE)>>, user, admin)
        ELSE BlOut(Bool(TRUE), <<Call("find_one", TRUE), Call("insert_one", TRUE)>>,
                   IF is_admin THEN user ELSE BagAdd(user, e),
                   IF is_admin THEN BagAdd(admin, e) ELSE admin)

\* BlacklistService.remove_from_blacklist
bl_remove(user, admin, user_id, item_name, item_type, is_admin, del) ==
    LET e == BlEntry(user_id, item_name, item_type, is_admin)
        collection == IF is_admin THEN admin ELSE user
    IN  IF ~del THEN BlOut(Bool(FALSE), <<Call("delete_one", FALSE)>>, user, admin)
        ELSE IF ~BagIn(e, collection) THEN BlOut(Bool(FALSE), <<Call("delete_one", TRUE)>>, user, admin)
        ELSE BlOut(Bool(TRUE), <<Call("delete_one", TRUE)>>,
                   IF is_admin THEN user ELSE BagRemoveOne(user, e),
                   IF is_admin THEN BagRemoveOne(admin, e) ELSE admin)

\* BlacklistService.get_blacklist_by_type: the names found, [] on any exception
get_blacklist_by_type(user, admin, user_id, item_type, rdUser, rdAdmin) ==
    IF ~rdUser \/ ~rdAdmin THEN {}
    ELSE {e.item_name : e \in {x \in BagToSet(user) : x.user_id = user_id /\ x.item_type = item_type}}
         \cup {e.item_name : e \in {x \in BagToSet(admin) : x.user_id = "admin" /\ x.item_type = item_type}}

\* the hotel test applied to the name as written, not normalized
HotelIsBlacklistedAsWritten(hotel, blacklisted_names) ==
    \/ hotel \in blacklisted_names
    \/ \E b \in blacklisted_names : IsSubstring(b, hotel) \/ IsSubstring(hotel, b)

\* the test filter_hotels applies to one hotel name
HotelIsBlacklisted(hotel, blacklisted_names) ==
    LET hotel_name == NormalizedName(hotel)
    IN  \/ hotel_name \in blacklisted_names
        \/ \E b \in blacklisted_names : IsSubstring(b, hotel_name) \/ IsSubstring(hotel_name, b)

\* the hotels filter_hotels appends to filtered_hotels, in their order
filtered_hotels(hotels, blacklisted_names) ==
    LET kept == {i \in 1..Len(hotels) : ~HotelIsBlacklisted(hotels[i], blacklisted_names)}
        nth(n) == CHOOSE i \in kept : Cardinality({j \in kept : j <= i}) = n
    IN  [n \in 1..Cardinality(kept) |-> hotels[nth(n)]]

\* BlacklistService.filter_hotels
filter_hotels(user, admin, hotels, user_id, rdUser, rdAdmin) ==
    IF hotels = <<>> THEN <<>>
    ELSE filtered_hotels(hotels, get_blacklist_by_type(user, admin, user_id, "hotel", rdUser, rdAdmin))

BlStep(op, user_id, arg, result, calls, user, admin) ==
    /\ blacklist' = user
    /\ admin_blacklist' = admin
    /\ last' = [op |-> op, key |-> user_id, arg |-> arg, result |-> result, raised |-> FALSE,
                calls |-> calls, status |-> 200]
    /\ UNCHANGED <<convVars, tripVars, taskVars, ctxVars>>

BlArg(item_name, item_type, is_admin) ==
    [item_name |-> item_name, item_type |-> item_type, is_admin |-> is_admin]

\* the two collections together hold at most MaxBl entries
RoomForEntry == BagCardinality(blacklist) + BagCardinality(admin_blacklist) < MaxBl

\* POST /api/blacklist/add (main.py)
add_to_blacklist(user_id, item_name, item_type, is_admin, find, ins) ==
    LET out == bl_add(blacklist, admin_blacklist, user_id, item_name, item_type, is_admin, find, ins)
    IN  /\ RoomForEntry
        /\ Len(out.calls) = 1 => ins
        /\ BlStep("add_to_blacklist", user_id, BlArg(item_name, item_type, is_admin),
                  out.result, out.calls, out.user, out.admin)

\* DELETE /api/blacklist/remove (main.py)
remove_from_blacklist(user_id, item_name, item_type, is_admin, del) ==
    LET out == bl_remove(blacklist, admin_blacklist, user_id, item_name, item_type, is_admin, del)
    IN  BlStep("remove_from_blacklist", user_id, BlArg(item_name, item_type, is_admin),
               out.result, out.calls, out.user, out.admin)

\* the hotel search step of the planning workflow (agent/workflow.py)
hotel_search(hotels, user_id, rdUser, rdAdmin) ==
    /\ (hotels = <<>> \/ ~rdUser) => rdAdmin
    /\ hotels = <<>> => rdUser
    /\ BlStep("filter_hotels", user_id, List(hotels),
              List(filter_hotels(blacklist, admin_blacklist, hotels, user_id, rdUser, rdAdmin)),
              IF hotels = <<>> THEN <<>>
              ELSE IF ~rdUser THEN <<Call("find", FALSE)>>
              ELSE <<Call("find", TRUE), Call("find", rdAdmin)>>,
              blacklist, admin_blacklist)

(***************************************************************************)
(* POST /api/chat (main.py) and the conversation history of the context    *)
(* service (services/context_service.py).                                  *)
(***************************************************************************)
ChatUsers == {"u1"}
MaxTurns == 2
HISTORY_SLICE == 50

\* the last n elements of a list: {"$slice": -n}
LastN(seq, n) == IF Len(seq) <= n THEN seq ELSE SubSeq(seq, Len(seq) - n + 1, Len(seq))

\* the entry update_conversation_history pushes
conversation_entry(message, response, trip_data) ==
    [timestamp |-> "utcnow", user_message |-> message, ai_response |-> response,
     trip_data |-> trip_data]

\* context_collection.update_one({"user_id": u}, {"$push": {"conversation_history":
\* {"$each": [entry], "$slice": -50}}, "$set": {"last_activity": now}}, upsert=True)
PushHistory(store, user_id, entry) ==
    LET history == IF store[user_id] = NoDoc THEN <<>> ELSE store[user_id].conversation_history
    IN  [store EXCEPT ![user_id] =
            [conversation_history |-> LastN(Append(history, entry), HISTORY_SLICE),
             last_activity |-> "utcnow"]]

\* ContextService.update_conversation_history: every exception is answered False
update_conversation_history(store, user_id, message, response, trip_data, wr) ==
    IF wr THEN PushHistory(store, user_id, conversation_entry(message, response, trip_data))
    ELSE store

\* models/__init__.py: trip_plan and trip are separate optional fields
TravelAssistantResponse(message, trip_plan, trip, conversation_id) ==
    [message |-> message, trip_plan |-> trip_plan, trip |-> trip,
     conversation_id |-> conversation_id]

\* the plan _generate_intelligent_itinerary synthesizes
TripPlan == [trip_title |-> "Tokyo Adventure", total_days |-> "3"]

\* TravelPlanningWorkflow.process_message: the mock response when the model
\* is not available, else the reply, with a plan under trip_plan when the
\* message triggers the itinerary mode
process_message(message, session_id, llm_available, should_trigger_hybrid) ==
    IF ~llm_available THEN TravelAssistantResponse("demo", None, None, "demo_session")
    ELSE IF should_trigger_hybrid THEN TravelAssistantResponse("reply", TripPlan, None, session_id)
    ELSE TravelAssistantResponse("reply", None, None, session_id)

\* the plan chat passes on: response.trip.model_dump() if response.trip else None
PassedPlan(response) == response.trip

\* the body of the answer: ChatResponse with the conversation id of the request
ChatResponse(conversation_id, message, trip_plan) ==
    [conversation_id |-> conversation_id, message |-> message, trip_plan |-> trip_plan]

\* the history of a user stays within MaxTurns entries
RoomForTurn(user_id) ==
    user_contexts[user_id] # NoDoc => Len(user_contexts[user_id].conversation_history) < MaxTurns

\* chat: process_message, update_conversation_history, ChatResponse; an
\* exception of process_message is answered 500.  agent is the outcome of
\* process_message, wr that of the history's update_one.
chat(message, conversation_id, user_id, agent, llm_available, should_trigger_hybrid, wr) ==
    LET response == process_message(message, conversation_id, llm_available, should_trigger_hybrid)
    IN  /\ RoomForTurn(user_id)
        /\ ~agent => (wr /\ llm_available /\ should_trigger_hybrid)
        /\ ~llm_available => should_trigger_hybrid
        /\ user_contexts' = IF agent
                            THEN update_conversation_history(user_contexts, user_id, message,
                                                             response.message, PassedPlan(response), wr)
                            ELSE user_contexts
        /\ last' = [op |-> "chat", key |-> conversation_id,
                    arg |-> [message |-> message, user_id |-> user_id,
                             response |-> IF agent THEN response ELSE None],
                    result |-> IF agent
                               THEN ChatResponse(conversation_id, response.message, PassedPlan(response))
                               ELSE None,
                    raised |-> ~agent,
                    calls |-> IF agent THEN <<Call("update_one", wr)>> ELSE <<>>,
                    status |-> IF agent THEN 200 ELSE 500]
        /\ UNCHANGED <<convVars, tripVars, blVars, taskVars, flow, clients>>

(***************************************************************************)
(* The workflow graph of TravelPlanningWorkflow._create_workflow: eight    *)
(* nodes on one line of edges from the entry point to END.  flow is the    *)
(* one run in progress: node is the position in the graph, the other       *)
(* fields are those of AgentState the steps write; trace lists the nodes   *)
(* that returned.  The result fields (search_results, weather_data, ...)   *)
(* hold the agent's output and are left out.                               *)
(***************************************************************************)
MaxRuns == 1

\* add_node, in the order of the edges
WorkflowNodes ==
    <<"start", "destination_selection", "weather_check", "hotel_search",
      "route_planning", "budget_estimation", "itinerary_generation", "finalize">>

\* set_entry_point
EntryPoint == "start"

\* add_edge
Edge(node) ==
    CASE node = "start" -> "destination_selection"
      [] node = "destination_selection" -> "weather_check"
      [] node = "weather_check" -> "hotel_search"
      [] node = "hotel_search" -> "route_planning"
      [] node = "route_planning" -> "budget_estimation"
      [] node = "budget_estimation" -> "itinerary_generation"
      [] node = "itinerary_generation" -> "finalize"
      [] node = "finalize" -> "END"

NoRun ==
    [node |-> "idle", runs |-> 0, user_id |-> "u1", current_step |-> "", context |-> None,
     trip_plan |-> None, trace |-> <<>>]

\* ContextService.get_user_context without a session id: the stored document,
\* the default context when there is none, and a context without a history
\* when find_one raises
get_user_context(store, user_id, rd) ==
    IF ~rd THEN [user_id |-> user_id, preferences |-> "{}"]
    ELSE IF store[user_id] # NoDoc THEN store[user_id]
    ELSE [conversation_history |-> <<>>, last_activity |-> "utcnow"]

\* ContextService.save_user_context: update_one({"user_id": u}, {"$set":
\* context}, upsert=True) writes every key of the context, the history it
\* carries included; every exception is answered False.  A document without
\* a history is kept as one with the empty history, which is what $push and
\* the readers make of it.
save_user_context(store, user_id, context, wr) ==
    LET history == IF "conversation_history" \in DOMAIN context
                   THEN context.conversation_history
                   ELSE IF store[user_id] = NoDoc THEN <<>>
                   ELSE store[user_id].conversation_history
    IN  IF wr
        THEN [store EXCEPT ![user_id] =
                 [conversation_history |-> history, last_activity |-> "utcnow"]]
        ELSE store

\* _parse_trip_plan
ParsedTripPlan == [trip_title |-> "AI Generated Trip", total_days |-> "7"]

\* the node returned: the graph follows its edge
Returned(node, state) ==
    flow' = [state EXCEPT !.node = Edge(node), !.trace = Append(@, node)]

\* the node raised: the exception leaves the graph and ends the run
Raised ==
    flow' = [flow EXCEPT !.node = "raised"]

\* app.ainvoke(state): a run of the graph from its entry point
invoke(user_id) ==
    /\ flow.node \in {"idle", "END", "raised"}
    /\ flow.runs < MaxRuns
    /\ flow' = [node |-> EntryPoint, runs |-> flow.runs + 1, user_id |-> user_id,
                current_step |-> "start", context |-> None, trip_plan |-> None,
                trace |-> <<>>]
    /\ UNCHANGED <<convVars, tripVars, blVars, taskVars, last, user_contexts, clients>>

\* start_conversation: both reads answer their own exceptions
start_conversation(rd) ==
    /\ flow.node = "start"
    /\ Returned("start", [flow EXCEPT !.context = get_user_context(user_contexts, flow.user_id, rd),
                                      !.current_step = "destination_selection"])
    /\ UNCHANGED <<convVars, tripVars, blVars, taskVars, last, user_contexts, clients>>

\* a step that awaits self.agent.ainvoke and writes current_step.  ok: the
\* call returned; it raises when the model call fails, and on every call
\* while self.agent is None, as __init__ leaves it.
AgentNode(node, next_step, ok) ==
    /\ flow.node = node
    /\ IF ok THEN Returned(node, [flow EXCEPT !.current_step = next_step]) ELSE Raised
    /\ UNCHANGED <<convVars, tripVars, blVars, taskVars, last, user_contexts, clients>>

destination_selection(ok) == AgentNode("destination_selection", "weather_check", ok)

weather_check(ok) == AgentNode("weather_check", "hotel_search", ok)

\* TravelPlanningWorkflow.hotel_search, the node of the graph
workflow_hotel_search(ok) == AgentNode("hotel_search", "route_planning", ok)

route_planning(ok) == AgentNode("route_planning", "budget_estimation", ok)

budget_estimation(ok) == AgentNode("budget_estimation", "itinerary_generation", ok)

\* itinerary_generation: an exception of the parse leaves trip_plan None
itinerary_generation(ok, parsed) ==
    /\ flow.node = "itinerary_generation"
    /\ ~ok => parsed
    /\ IF ok
       THEN Returned("itinerary_generation",
                     [flow EXCEPT !.trip_plan = IF parsed THEN ParsedTripPlan ELSE None,
                                  !.current_step = "finalize"])
       ELSE Raised
    /\ UNCHANGED <<convVars, tripVars, blVars, taskVars, last, user_contexts, clients>>

\* finalize_response: save_user_context with the context start_conversation loaded
finalize_response(wr) ==
    /\ flow.node = "finalize"
    /\ user_contexts' = save_user_context(user_contexts, flow.user_id, flow.context, wr)
    /\ Returned("finalize", [flow EXCEPT !.current_step = "completed"])
    /\ UNCHANGED <<convVars, tripVars, blVars, taskVars, last, clients>>

\* the steps of the graph
GraphStep ==
    \/ \E rd \in BOOLEAN : start_conversation(rd)
    \/ \E ok \in BOOLEAN : destination_selection(ok)
    \/ \E ok \in BOOLEAN : weather_check(ok)
    \/ \E ok \in BOOLEAN : workflow_hotel_search(ok)
    \/ \E ok \in BOOLEAN : route_planning(ok)
    \/ \E ok \in BOOLEAN : budget_estimation(ok)
    \/ \E ok, parsed \in BOOLEAN : itinerary_generation(ok, parsed)
    \/ \E wr \in BOOLEAN : finalize_response(wr)

(***************************************************************************)
(* Client handles.  clients.handles lists every client object constructed  *)
(* since the process started, with its kind, the code that constructed it  *)
(* and whether it is still open; mongo_client and redis are the module     *)
(* globals _mongo_client and _redis of db.py, holding the index of their   *)
(* handle, or NoHandle for None.  phase follows the import of main.py and  *)
(* the startup and shutdown events.                                        *)
(***************************************************************************)
NoHandle == 0

NoClients == [phase |-> "start", mongo_client |-> NoHandle, redis |-> NoHandle, handles |-> <<>>]

\* a client object is constructed: AsyncIOMotorClient(...), from_url(...)
Construct(c, kind, by) ==
    [c EXCEPT !.handles = Append(@, [kind |-> kind, by |-> by, open |-> TRUE])]

\* client.close()
Close(c, h) == [c EXCEPT !.handles[h].open = FALSE]

\* db._get_mongo_client, as get_db calls it
get_db(c) ==
    IF c.mongo_client = NoHandle
    THEN [Construct(c, "mongo", "db") EXCEPT !.mongo_client = Len(c.handles) + 1]
    ELSE c

\* db._get_redis_client, as get_redis calls it
get_redis(c) ==
    IF c.redis = NoHandle
    THEN [Construct(c, "redis", "db") EXCEPT !.redis = Len(c.handles) + 1]
    ELSE c

\* db.close_connections: the two globals, and nothing else
close_connections(c) ==
    LET c1 == IF c.mongo_client # NoHandle
              THEN [Close(c, c.mongo_client) EXCEPT !.mongo_client = NoHandle]
              ELSE c
    IN  IF c1.redis # NoHandle THEN [Close(c1, c1.redis) EXCEPT !.redis = NoHandle] ELSE c1

\* BlacklistService.__init__: self.client = AsyncIOMotorClient(settings.MONGO_URI)
BlacklistService(c, by) == Construct(c, "mongo", by)

\* ContextService.__init__: self.mongo_client = AsyncIOMotorClient(settings.MONGO_URI)
ContextService(c, by) == Construct(c, "mongo", by)

\* ContextService.init: redis.from_url(settings.REDIS_URL), dropped when the ping fails
ContextService_init(c, by) == Construct(c, "redis", by)

\* ConversationRepository.create
ConversationRepository_create(c) == get_redis(get_db(c))

LifeStep(phase, next, c) ==
    /\ clients.phase = phase
    /\ clients' = [c EXCEPT !.phase = next]
    /\ UNCHANGED <<convVars, tripVars, blVars, taskVars, last, user_contexts, flow>>

\* main.py imports backend.agent.workflow: travel_agent = TravelPlanningWorkflow()
import_workflow ==
    LifeStep("start", "workflow",
             ContextService(BlacklistService(clients, "travel_agent"), "travel_agent"))

\* main.py imports backend.repositories: city_repository = CityRepository() and
\* trip_repository = TripRepository(), each with self.db = get_db()
import_repositories ==
    LifeStep("workflow", "repositories", get_db(get_db(clients)))

\* main.py: blacklist_service = BlacklistService(); context_service = ContextService()
import_main ==
    LifeStep("repositories", "main", ContextService(BlacklistService(clients, "main"), "main"))

\* on_startup: ConversationRepository.create(), then context_service.init()
on_startup ==
    LifeStep("main", "serving", ContextService_init(ConversationRepository_create(clients), "main"))

\* get_repo: every conversation request builds its repository
get_repo ==
    LifeStep("serving", "serving", ConversationRepository_create(clients))

\* on_shutdown: close_connections()
on_shutdown ==
    LifeStep("serving", "stopped", close_connections(clients))

(***************************************************************************)
(* Concurrent calls.  The handlers are coroutines on one event loop: a     *)
(* call runs alone from one await of a store or cache call to the next,    *)
(* and between two awaits the steps of other calls may run.  tasks holds   *)
(* each call in progress with its position and its local variables; acks   *)
(* holds what the finished calls have answered.                            *)
(***************************************************************************)
Procs == {"p1", "p2"}
MaxCalls == 2

Idle == [op |-> "idle", pc |-> "idle", arg |-> None, local |-> None]
Task(op, pc, arg, local) == [op |-> op, pc |-> pc, arg |-> arg, local |-> local]

NoAcks == [append |-> <<>>, budget |-> <<>>, city |-> {}, upsert |-> 0, get |-> 0]

\* the calls of one method begun so far, finished or not
Begun(op, finished) == finished + Cardinality({p \in Procs : tasks[p].op = op})

At(p, op, pc) == tasks[p].op = op /\ tasks[p].pc = pc

TaskStep(p, task) ==
    /\ tasks' = [tasks EXCEPT ![p] = task]
    /\ UNCHANGED <<last, ctxVars>>

\* ConversationRepository.append_message is called
append_message_call(p, k, m) ==
    /\ tasks[p] = Idle
    /\ Begun("append_message", Len(acks.append)) < MaxCalls
    /\ TaskStep(p, Task("append_message", "push", [k |-> k, m |-> m], None))
    /\ UNCHANGED <<convVars, tripVars, blVars, acks>>

\* await find_one_and_update({"_id": k, "state.messages": {"$type": "array"}}, $push)
append_message_push(p) ==
    /\ At(p, "append_message", "push")
    /\ LET k == tasks[p].arg.k
           s1 == PushMessage(convStore, k, tasks[p].arg.m)
       IN  IF HasMessagesArray(convStore, k)
           THEN /\ convStore' = s1
                /\ TaskStep(p, [tasks[p] EXCEPT !.pc = "redis.set", !.local = DocState(s1[k])])
           ELSE /\ convStore' = convStore
                /\ TaskStep(p, [tasks[p] EXCEPT !.pc = "update_one"])
    /\ UNCHANGED <<convCache, tripVars, blVars, acks>>

\* await update_one({"_id": k}, {"$set": {"state": {"messages": [message]}}}, upsert=True)
append_message_init(p) ==
    /\ At(p, "append_message", "update_one")
    /\ convStore' = SetStateUpsert(convStore, tasks[p].arg.k,
                                   ConvState(TRUE, <<tasks[p].arg.m>>, "none"))
    /\ TaskStep(p, [tasks[p] EXCEPT !.pc = "find_one"])
    /\ UNCHANGED <<convCache, tripVars, blVars, acks>>

\* await find_one({"_id": k})
append_message_find(p) ==
    /\ At(p, "append_message", "find_one")
    /\ TaskStep(p, [tasks[p] EXCEPT !.pc = "redis.set",
                                    !.local = DocState(convStore[tasks[p].arg.k])])
    /\ UNCHANGED <<convVars, tripVars, blVars, acks>>

\* await redis.set(key, json.dumps(state), ex=...) ; return state
append_message_cache(p) ==
    /\ At(p, "append_message", "redis.set")
    /\ convCache' = CacheSet(convCache, tasks[p].arg.k, tasks[p].local, CONV_CACHE_TTL_SECONDS)
    /\ acks' = [acks EXCEPT !.append = Append(@, tasks[p].arg.m)]
    /\ TaskStep(p, Idle)
    /\ UNCHANGED <<convStore, tripVars, blVars>>

\* ConversationRepository.upsert is called
upsert_call(p, k, state) ==
    /\ tasks[p] = Idle
    /\ Begun("upsert", acks.upsert) < MaxCalls
    /\ TaskStep(p, Task("upsert", "update_one", [k |-> k, state |-> state], None))
    /\ UNCHANGED <<convVars, tripVars, blVars, acks>>

\* await update_one({"_id": k}, {"$set": {"state": state}}, upsert=True)
upsert_update_one(p) ==
    /\ At(p, "upsert", "update_one")
    /\ convStore' = SetStateUpsert(convStore, tasks[p].arg.k, tasks[p].arg.state)
    /\ TaskStep(p, [tasks[p] EXCEPT !.pc = "redis.set"])
    /\ UNCHANGED <<convCache, tripVars, blVars, acks>>

\* await redis.set(key, json.dumps(state), ex=...)
upsert_redis_set(p) ==
    /\ At(p, "upsert", "redis.set")
    /\ convCache' = CacheSet(convCache, tasks[p].arg.k, tasks[p].arg.state, CONV_CACHE_TTL_SECONDS)
    /\ acks' = [acks EXCEPT !.upsert = @ + 1]
    /\ TaskStep(p, Idle)
    /\ UNCHANGED <<convStore, tripVars, blVars>>

\* ConversationRepository.get is called
get_call(p, k) ==
    /\ tasks[p] = Idle
    /\ Begun("get", acks.get) < MaxCalls
    /\ TaskStep(p, Task("get", "redis.get", [k |-> k], None))
    /\ UNCHANGED <<convVars, tripVars, blVars, acks>>

\* await redis.get(key): a hit returns the parsed entry
get_redis_get(p) ==
    /\ At(p, "get", "redis.get")
    /\ IF CacheHit(convCache, tasks[p].arg.k)
       THEN /\ TaskStep(p, Idle)
            /\ acks' = [acks EXCEPT !.get = @ + 1]
       ELSE /\ TaskStep(p, [tasks[p] EXCEPT !.pc = "find_one"])
            /\ acks' = acks
    /\ UNCHANGED <<convVars, tripVars, blVars>>

\* await find_one({"_id": k}): no document returns None
get_find_one(p) ==
    /\ At(p, "get", "find_one")
    /\ IF convStore[tasks[p].arg.k] = NoDoc
       THEN /\ TaskStep(p, Idle)
            /\ acks' = [acks EXCEPT !.get = @ + 1]
       ELSE /\ TaskStep(p, [tasks[p] EXCEPT !.pc = "redis.set",
                                            !.local = DocState(convStore[tasks[p].arg.k])])
            /\ acks' = acks
    /\ UNCHANGED <<convVars, tripVars, blVars>>

\* await redis.set(key, json.dumps(state), ex=...) ; return state
get_redis_set(p) ==
    /\ At(p, "get", "redis.set")
    /\ convCache' = CacheSet(convCache, tasks[p].arg.k, tasks[p].local, CONV_CACHE_TTL_SECONDS)
    /\ acks' = [acks EXCEPT !.get = @ + 1]
    /\ TaskStep(p, Idle)
    /\ UNCHANGED <<convStore, tripVars, blVars>>

\* TripRepository.add_budget_item is called
add_budget_item_call(p, trip_id, budget_item) ==
    /\ tasks[p] = Idle
    /\ trips[trip_id] # NoDoc
    /\ Begun("add_budget_item", Len(acks.budget)) < MaxCalls
    /\ TaskStep(p, Task("add_budget_item", "find_one_and_update",
                        [trip_id |-> trip_id, item |-> budget_item], None))
    /\ UNCHANGED <<convVars, tripVars, blVars, acks>>

\* await find_one_and_update({"_id": ObjectId(trip_id)}, {"$push": {"budget": item}, ...})
add_budget_item_push(p) ==
    /\ At(p, "add_budget_item", "find_one_and_update")
    /\ trips' = [trips EXCEPT ![tasks[p].arg.trip_id] =
                     PushBudgetItem(trips[tasks[p].arg.trip_id], tasks[p].arg.item)]
    /\ acks' = [acks EXCEPT !.budget = Append(@, tasks[p].arg.item)]
    /\ TaskStep(p, Idle)
    /\ UNCHANGED <<convVars, freeIds, cities, blVars>>

\* CityRepository.update_city is called
update_city_call(p, city_id, update_data) ==
    /\ tasks[p] = Idle
    /\ update_data \notin acks.city
    /\ \A q \in Procs : tasks[q].op = "update_city" => tasks[q].arg.data # update_data
    /\ TaskStep(p, Task("update_city", "find_one", [city_id |-> city_id, data |-> update_data], None))
    /\ UNCHANGED <<convVars, tripVars, blVars, acks>>

\* existing = await self.get_city_by_id(city_id) ; city = CityModel(**updated_data)
update_city_read(p, valid) ==
    /\ At(p, "update_city", "find_one")
    /\ LET existing == cities[tasks[p].arg.city_id]
       IN  IF existing = NoDoc \/ ~valid
           THEN TaskStep(p, Idle)
           ELSE TaskStep(p, [tasks[p] EXCEPT !.pc = "find_one_and_update",
                                             !.local = MergedCity(existing, tasks[p].arg.data)])
    /\ UNCHANGED <<convVars, tripVars, blVars, acks>>

\* await find_one_and_update({"_id": ObjectId(city_id)}, {"$set": city.dict()})
update_city_write(p) ==
    /\ At(p, "update_city", "find_one_and_update")
    /\ cities' = [cities EXCEPT ![tasks[p].arg.city_id] = IF @ = NoDoc THEN @ ELSE tasks[p].local]
    /\ acks' = [acks EXCEPT !.city = IF cities[tasks[p].arg.city_id] = NoDoc THEN @
                                     ELSE @ \cup {tasks[p].arg.data}]
    /\ TaskStep(p, Idle)
    /\ UNCHANGED <<convVars, trips, freeIds, blVars>>

\* BlacklistService.add_to_blacklist is called
add_to_blacklist_call(p, user_id, item_name, item_type, is_admin) ==
    /\ tasks[p] = Idle
    /\ BagCardinality(blacklist) + BagCardinality(admin_blacklist)
          + Cardinality({q \in Procs : tasks[q].op = "add_to_blacklist"}) < MaxBl
    /\ TaskStep(p, Task("add_to_blacklist", "find_one",
                        [entry |-> BlEntry(user_id, item_name, item_type, is_admin),
                         is_admin |-> is_admin], None))
    /\ UNCHANGED <<convVars, tripVars, blVars, acks>>

\* existing = await collection.find_one({...}) ; if existing: return False
add_to_blacklist_find(p) ==
    /\ At(p, "add_to_blacklist", "find_one")
    /\ LET collection == IF tasks[p].arg.is_admin THEN admin_blacklist ELSE blacklist
       IN  IF BagIn(tasks[p].arg.entry, collection)
           THEN TaskStep(p, Idle)
           ELSE TaskStep(p, [tasks[p] EXCEPT !.pc = "insert_one"])
    /\ UNCHANGED <<convVars, tripVars, blVars, acks>>

\* await collection.insert_one(blacklist_entry) ; return True
add_to_blacklist_insert(p) ==
    /\ At(p, "add_to_blacklist", "insert_one")
    /\ blacklist' = IF tasks[p].arg.is_admin THEN blacklist
                    ELSE BagAdd(blacklist, tasks[p].arg.entry)
    /\ admin_blacklist' = IF tasks[p].arg.is_admin THEN BagAdd(admin_blacklist, tasks[p].arg.entry)
                          ELSE admin_blacklist
    /\ TaskStep(p, Idle)
    /\ UNCHANGED <<convVars, tripVars, acks>>

\* BlacklistService.remove_from_blacklist is called
remove_from_blacklist_call(p, user_id, item_name, item_type, is_admin) ==
    /\ tasks[p] = Idle
    /\ TaskStep(p, Task("remove_from_blacklist", "delete_one",
                        [user_id |-> user_id, item_name |-> item_name, item_type |-> item_type,
                         is_admin |-> is_admin], None))
    /\ UNCHANGED <<convVars, tripVars, blVars, acks>>

\* result = await collection.delete_one({...})
remove_from_blacklist_delete(p) ==
    /\ At(p, "remove_from_blacklist", "delete_one")
    /\ LET arg == tasks[p].arg
           out == bl_remove(blacklist, admin_blacklist, arg.user_id, arg.item_name, arg.item_type,
                            arg.is_admin, TRUE)
       IN  /\ blacklist' = out.user
           /\ admin_blacklist' = out.admin
    /\ TaskStep(p, Idle)
    /\ UNCHANGED <<convVars, tripVars, acks>>

Init ==
    /\ convStore = [k \in ConvKeys |-> NoDoc]
    /\ convCache = [k \in ConvKeys |-> NoEntry]
    /\ trips = [t \in TripIds |-> NoDoc]
    /\ freeIds = TripIds
    /\ cities = [c \in CityIds |-> IF c \in SeedCities THEN SeedCity ELSE NoDoc]
    /\ blacklist = EmptyBag
    /\ admin_blacklist = EmptyBag
    /\ last = NoLog
    /\ tasks = [p \in Procs |-> Idle]
    /\ acks = NoAcks
    /\ user_contexts = [u \in ChatUsers |-> NoDoc]
    /\ flow = NoRun
    /\ clients = NoClients

NextConv ==
    \E k \in ConvKeys :
        \/ \E cr, sr, cw \in BOOLEAN : get_conversation(k, cr, sr, cw)
        \/ \E s \in InputStates, sw, cw \in BOOLEAN : update_conversation(k, s, sw, cw)
        \/ \E s \in InputStates, sw, cw \in BOOLEAN :
               create_conversation(k, s, "u1", sw, cw)
        \/ \E sw, cw \in BOOLEAN : delete_conversation(k, sw, cw)
        \/ \E sw, cw \in BOOLEAN : clear_conversation(k, sw, cw)
        \/ \E m \in Msgs, push, init, find, cr, cw \in BOOLEAN :
               append_message(k, m, push, init, find, cr, cw)
        \/ expire(k)
        \/ \E rd \in BOOLEAN : list_conversations("u1", rd)

NextTrip ==
    \/ \E p \in TripPayloads, ins, rd \in BOOLEAN : create_trip(p, ins, rd)
    \/ \E t \in TripIds \cup {InvalidObjectId}, rd \in BOOLEAN :
           \/ get_trip(t, rd)
           \/ get_trip_cities(t, rd)
           \/ \E p \in TripPayloads, wr \in BOOLEAN : update_trip(t, p, rd, wr)
           \/ \E wr \in BOOLEAN : delete_trip(t, rd, wr)
           \/ \E d \in {"2024-06-02", "2024-06-11"}, a \in Activities, wr \in BOOLEAN :
                  add_activity_to_day(t, d, a, rd, wr)
    \/ \E c \in CityIds \cup {InvalidObjectId}, wr \in BOOLEAN : delete_city(c, wr)

NextBl ==
    \/ \E u \in BlUsers, n \in ItemNames, t \in ItemTypes, a, find, ins \in BOOLEAN :
           add_to_blacklist(u, n, t, a, find, ins)
    \/ \E u \in BlUsers, n \in ItemNames, t \in ItemTypes, a, del \in BOOLEAN :
           remove_from_blacklist(u, n, t, a, del)
    \/ \E h \in HotelLists, u \in BlUsers, rdUser, rdAdmin \in BOOLEAN :
           hotel_search(h, u, rdUser, rdAdmin)

\* a body whose itinerary has two days
TwoDayTrip ==
    TripModel({"itinerary"}, "Asia Trip", "user123", FALSE,
              <<Day("2024-06-01", <<>>), Day("2024-06-02", <<>>)>>, "", "")

\* the trip handlers on nested records and the city handlers, with the store
\* calls of the requests that build the trips succeeding
NextItems ==
    \/ create_trip(TwoDayTrip, TRUE, TRUE)
    \/ \E t \in {"t1", InvalidObjectId}, rd, wr \in BOOLEAN :
           \/ \E p \in {q \in TripPayloads : q.user_id # get_current_user.id} :
                  update_trip(t, p, rd, wr)
           \/ delete_trip(t, rd, wr)
           \/ \E d \in {"2024-06-01", "2024-06-02"}, a \in {x \in Activities : x.id = "a1"} :
                  add_activity_to_day(t, d, a, rd, wr)
           \/ \E d \in ActivityUpdates, pos \in 1..2, rd2, rd3 \in BOOLEAN :
                  update_activity(t, "2024-06-02", "a1", d, pos, rd, rd2, wr, rd3)
           \/ delete_activity(t, "2024-06-02", "a1", rd, wr)
           \/ \E b \in BudgetItems : add_budget_item(t, b, rd, wr)
           \/ \E d \in BudgetUpdates, rd3 \in BOOLEAN : update_budget_item(t, "b1", d, rd, wr, rd3)
           \/ delete_budget_item(t, "b1", rd, wr)
           \/ \E c \in CityItems : add_city_to_trip(t, c, rd, wr)
           \/ remove_city_from_trip(t, "c1", rd, wr)
    \/ \E rd, valid, wr \in BOOLEAN :
           city_repository_update_city("c1", [is_featured |-> TRUE], rd, valid, wr)

\* the city router, and the repository's update called directly
NextCity ==
    \/ \E c \in CityIds, rd, valid, wr \in BOOLEAN :
           \/ \E d \in CityPayloads : update_city(c, d, rd, valid, wr)
           \/ \E d \in CityUpdates : city_repository_update_city(c, d, rd, valid, wr)
           \/ delete_city(c, wr)
    \/ \E d \in CityPayloads, rd, ins, rd2 \in BOOLEAN : create_city(d, rd, ins, rd2)

\* concurrent repository calls on one conversation, one trip and one city
NextRace ==
    \/ create_trip(TwoDayTrip, TRUE, TRUE)
    \/ \E p \in Procs :
           \/ \E m \in Msgs : append_message_call(p, "k1", m)
           \/ append_message_push(p)
           \/ append_message_init(p)
           \/ append_message_find(p)
           \/ append_message_cache(p)
           \/ \E b \in BudgetItems : add_budget_item_call(p, "t1", b)
           \/ add_budget_item_push(p)
           \/ \E d \in {[name |-> "Lutetia"], [is_featured |-> TRUE]} : update_city_call(p, "c1", d)
           \/ \E valid \in BOOLEAN : update_city_read(p, valid)
           \/ update_city_write(p)

\* concurrent upsert and get calls on one conversation, and the expiry of
\* its cache entry
NextConvRace ==
    \/ \E p \in Procs :
           \/ \E s \in InputStates : upsert_call(p, "k1", s)
           \/ upsert_update_one(p)
           \/ upsert_redis_set(p)
           \/ get_call(p, "k1")
           \/ get_redis_get(p)
           \/ get_find_one(p)
           \/ get_redis_set(p)
    \/ expire("k1")

\* concurrent calls of the blacklist service
NextBlRace ==
    \E p \in Procs :
        \/ \E u \in BlUsers, n \in ItemNames, t \in ItemTypes, a \in BOOLEAN :
               \/ add_to_blacklist_call(p, u, n, t, a)
               \/ remove_from_blacklist_call(p, u, n, t, a)
        \/ add_to_blacklist_find(p)
        \/ add_to_blacklist_insert(p)
        \/ remove_from_blacklist_delete(p)

\* chat turns next to the conversation handlers
NextChat ==
    \/ \E m \in Msgs, k \in ConvKeys, u \in ChatUsers, agent, llm, hybrid, wr \in BOOLEAN :
           chat(m, k, u, agent, llm, hybrid, wr)
    \/ \E k \in ConvKeys, cr, sr, cw \in BOOLEAN : get_conversation(k, cr, sr, cw)
    \/ \E k \in ConvKeys, m \in Msgs, push, init, find, cr, cw \in BOOLEAN :
           append_message(k, m, push, init, find, cr, cw)
    \/ \E k \in ConvKeys : expire(k)

\* runs of the workflow graph next to chat turns of the same user
NextFlow ==
    \/ \E u \in ChatUsers : invoke(u)
    \/ GraphStep
    \/ \E m \in Msgs, k \in ConvKeys, u \in ChatUsers, hybrid, wr \in BOOLEAN :
           chat(m, k, u, TRUE, TRUE, hybrid, wr)

\* the life of the process, with conversation requests while it serves
NextDb ==
    \/ import_workflow
    \/ import_repositories
    \/ import_main
    \/ on_startup
    \/ get_repo
    \/ on_shutdown
    \/ /\ clients.phase = "serving"
       /\ \E k \in ConvKeys :
              \/ \E cr, sr, cw \in BOOLEAN : get_conversation(k, cr, sr, cw)
              \/ \E s \in InputStates, sw, cw \in BOOLEAN : update_conversation(k, s, sw, cw)

Spec == Init /\ [][NextConv]_vars

SpecBl == Init /\ [][NextBl]_vars

SpecTrip == Init /\ [][NextTrip]_vars

SpecItems == Init /\ [][NextItems]_vars

SpecCity == Init /\ [][NextCity]_vars

SpecChat == Init /\ [][NextChat]_vars

SpecFlow == Init /\ [][NextFlow]_vars

SpecDb == Init /\ [][NextDb]_vars

\* the graph runs the next node as soon as one returned
SpecFlowFair == SpecFlow /\ WF_vars(GraphStep)

SpecRace == Init /\ [][NextRace]_vars

SpecConvRace == Init /\ [][NextConvRace]_vars

SpecBlRace == Init /\ [][NextBlRace]_vars

(***************************************************************************)
(* Properties.  A step is described by the state it leaves (unprimed), the *)
(* state it reaches (primed) and last', the record of the handler run.     *)
(***************************************************************************)
NoFailedStoreCall(l) == \A i \in 1..Len(l.calls) : StoreCall(l.calls[i]) => l.calls[i].ok
NoFailedCacheCall(l) == \A i \in 1..Len(l.calls) : CacheCall(l.calls[i]) => l.calls[i].ok
NoFailedCall(l) == \A i \in 1..Len(l.calls) : l.calls[i].ok
EveryCacheCallFailed(l) == \A i \in 1..Len(l.calls) : CacheCall(l.calls[i]) => ~l.calls[i].ok
MadeStoreCall(l) == \E i \in 1..Len(l.calls) : StoreCall(l.calls[i])

\* C1: upsert(k, s) followed immediately by get(k) returns s whenever no cache
\* call of the two operations fails, whatever the store calls do (also when
\* all of them fail).
C1_UpsertThenGet ==
    [][(/\ last.op = "upsert"
        /\ last'.op = "get"
        /\ last'.key = last.key
        /\ NoFailedCacheCall(last)
        /\ NoFailedCacheCall(last'))
       => (~last'.raised /\ last'.result = last.arg)]_vars

\* C1 witness: a get answered from the cache alone, for a key the store never
\* received.
C1_Witness ==
    /\ last.op = "get"
    /\ last.status = 200
    /\ last.calls = <<Call("redis.get", TRUE)>>
    /\ convStore[last.key] = NoDoc
    /\ last.result \in InputStates

\* the messages the store holds for k: none without a document or a list
StoredMessages(store, k) ==
    IF store[k] # NoDoc /\ store[k].state.has_messages THEN store[k].state.messages ELSE <<>>

TripAbsent(store, trip_id) == ~IsObjectId(trip_id) \/ store[trip_id] = NoDoc

\* C3: a delete request for a conversation, trip or city that the store does
\* not hold is answered 404, whatever the store calls do.
C3_DeleteAbsentIsNotFound ==
    [][(\/ last'.op = "delete" /\ convStore[last'.key] = NoDoc
        \/ last'.op = "delete_trip" /\ TripAbsent(trips, last'.key)
        \/ last'.op = "delete_city" /\ CityAbsent(cities, last'.key))
       => last'.status = 404]_vars

NonOwnerTrip(store, trip_id) ==
    /\ IsObjectId(trip_id)
    /\ store[trip_id] # NoDoc
    /\ store[trip_id].user_id # get_current_user.id

\* C4: for a stored trip whose user_id is not the requester's id, and with the
\* store read succeeding, PUT and DELETE are answered 403 and GET of the trip
\* and of its cities is answered 200 exactly when the trip is public.
C4_NonOwnerGate ==
    [][(/\ last'.op \in {"update_trip", "delete_trip", "get_trip", "get_trip_cities"}
        /\ NonOwnerTrip(trips, last'.key)
        /\ last'.calls[1].ok)
       => /\ last'.op \in {"update_trip", "delete_trip"} => last'.status = 403
          /\ last'.op \in {"get_trip", "get_trip_cities"}
                => (last'.status = 200 <=> trips[last'.key].is_public)
          /\ last'.op \in {"get_trip", "get_trip_cities"}
                => last'.status \in {200, 403}]_vars

\* C4 witness: a non-owner read a public trip.
C4_Witness ==
    /\ last.op = "get_trip"
    /\ last.status = 200
    /\ NonOwnerTrip(trips, last.key)
    /\ last.result.user_id # get_current_user.id

SameBlKey(a, b) ==
    /\ a.arg.is_admin = b.arg.is_admin
    /\ (~a.arg.is_admin => a.key = b.key)
    /\ NormalizedName(a.arg.item_name) = NormalizedName(b.arg.item_name)
    /\ a.arg.item_type = b.arg.item_type

BlCopies(user, admin, l) ==
    CopiesIn(BlEntry(l.key, l.arg.item_name, l.arg.item_type, l.arg.is_admin),
             IF l.arg.is_admin THEN admin ELSE user)

\* C5: with no store call failing, an add for a key (scope, normalized name,
\* type) the collection does not hold reports success and leaves one record;
\* an add for the same key right after reports already-exists and the
\* collection still holds exactly one record for the key.
C5_AddTwice ==
    [][/\ (/\ last'.op = "add_to_blacklist"
           /\ NoFailedCall(last')
           /\ BlCopies(blacklist, admin_blacklist, last') = 0)
          => /\ last'.result = Bool(TRUE)
             /\ BlCopies(blacklist', admin_blacklist', last') = 1
       /\ (/\ last.op = "add_to_blacklist"
           /\ last.result = Bool(TRUE)
           /\ last'.op = "add_to_blacklist"
           /\ SameBlKey(last, last')
           /\ NoFailedCall(last'))
          => /\ last'.result = Bool(FALSE)
             /\ BlCopies(blacklist', admin_blacklist', last') = 1]_vars

\* C5 witness: an add was refused as already existing although the name was
\* spelled differently from the stored one.
C5_Witness ==
    /\ last.op = "add_to_blacklist"
    /\ last.result = Bool(FALSE)
    /\ last.calls = <<Call("find_one", TRUE)>>
    /\ last.arg.item_name # NormalizedName(last.arg.item_name)
    /\ BlCopies(blacklist, admin_blacklist, last) = 1

\* C6: adding an activity to a day inside the date range of a trip that was
\* created without an itinerary succeeds, and the trip read back has a record
\* for that day holding exactly that activity.
C6_AddActivityToNewTrip ==
    [][(/\ last'.op = "add_activity_to_day"
        /\ ~TripAbsent(trips, last'.key)
        /\ trips[last'.key].user_id = get_current_user.id
        /\ trips[last'.key].itinerary = <<>>
        /\ DateInRange(last'.arg.day_date, trips[last'.key])
        /\ NoFailedCall(last'))
       => /\ last'.status = 200
          /\ LET trip == get_trip_by_id(trips', last'.key, TRUE)
             IN  \E i \in 1..Len(trip.itinerary) :
                     /\ trip.itinerary[i].date = last'.arg.day_date
                     /\ trip.itinerary[i].activities = <<last'.arg.activity>>]_vars

\* C7 as stated: the trip read back after its creation is owned by the
\* requester and carries every supplied field as supplied.
C7_AllFieldsRoundTrip ==
    [][(/\ last.op = "create_trip"
        /\ last.status = 201
        /\ last'.op = "get_trip"
        /\ last'.key = last.key
        /\ last'.calls[1].ok)
       => /\ last'.status = 200
          /\ last'.result.user_id = get_current_user.id
          /\ \A f \in last.arg.fields_set : last'.result[f] = last.arg[f]]_vars

ServerSetFields == {"id", "user_id", "created_at", "updated_at"}

\* C7 amended: the trip read back after its creation is owned by the
\* requester, its id is the generated document key, and every supplied field
\* other than id, user_id, created_at and updated_at is as supplied.
C7_ClientFieldsRoundTrip ==
    [][(/\ last.op = "create_trip"
        /\ last.status = 201
        /\ last'.op = "get_trip"
        /\ last'.key = last.key
        /\ last'.calls[1].ok)
       => /\ last'.status = 200
          /\ last'.result.user_id = get_current_user.id
          /\ last'.result.id = last.key
          /\ last'.result = last.result
          /\ \A f \in last.arg.fields_set \ ServerSetFields :
                 last'.result[f] = last.arg[f]]_vars

\* C7 witness: a trip was created from a payload that supplies an itinerary
\* and its own id and timestamps.
C7_Witness ==
    /\ last.op = "create_trip"
    /\ last.status = 201
    /\ {"itinerary", "id", "created_at"} \subseteq last.arg.fields_set
    /\ last.result.itinerary = last.arg.itinerary
    /\ last.result.id # last.arg.id

HotelEntriesFor(user, admin, user_id) ==
    {e \in BagToSet(user) : e.user_id = user_id /\ e.item_type = "hotel"}
    \cup {e \in BagToSet(admin) : e.item_type = "hotel"}

C9_GetReadThrough ==
    [][(last'.op = "get" /\ last'.calls[1].ok)
       => LET k == last'.key
          IN  /\ ~last'.raised
              /\ IF CacheHit(convCache, k)
                 THEN /\ last'.result = json_loads(convCache[k].val)
                      /\ ~MadeStoreCall(last')
                      /\ convCache' = convCache
                 ELSE IF last'.calls[2].ok /\ convStore[k] # NoDoc
                 THEN /\ last'.result = convStore[k].state
                      /\ Len(last'.calls) = 3
                      /\ last'.calls[3].c = "redis.set"
                      /\ last'.calls[3].ok
                            => convCache'[k] = [val |-> json_dumps(convStore[k].state),
                                                ex |-> CONV_CACHE_TTL_SECONDS]
                 ELSE /\ last'.result = None
                      /\ convCache' = convCache
              /\ convStore' = convStore]_vars

\* C9 witness: a get missed the cache, read the document and filled the cache.
C9_Witness ==
    /\ last.op = "get"
    /\ Len(last.calls) = 3
    /\ last.calls[3].ok
    /\ last.result = convStore[last.key].state
    /\ convCache[last.key] = [val |-> json_dumps(last.result), ex |-> CONV_CACHE_TTL_SECONDS]
    /\ last.result.has_messages

\* what each repository method returns from the store alone
StoreAloneResult(store, storeAfter, l) ==
    CASE l.op = "get" -> IF store[l.key] = NoDoc THEN None ELSE store[l.key].state
      [] l.op = "delete" -> Bool(store[l.key] # NoDoc)
      [] l.op = "clear" -> Bool(store[l.key] # NoDoc /\ store[l.key].state # EmptyState)
      [] l.op = "append_message" -> storeAfter[l.key].state
      [] OTHER -> None

\* C10: with every cache call failing and no store call failing, get, upsert,
\* create_conversation, delete, clear and append_message do not raise and
\* return what the store alone gives.
C10_CacheDownDegrades ==
    [][(/\ last'.op \in {"get", "upsert", "create_conversation", "delete", "clear",
                         "append_message"}
        /\ EveryCacheCallFailed(last')
        /\ NoFailedStoreCall(last'))
       => /\ ~last'.raised
          /\ last'.result = StoreAloneResult(convStore, convStore', last')]_vars

\* C11: whenever no operation is in progress, every cache entry for a key k
\* holds the state of the store document for k.
C11_CacheIsCopyOfStore ==
    \A k \in ConvKeys :
        convCache[k] # NoEntry
            => /\ convStore[k] # NoDoc
               /\ json_loads(convCache[k].val) = convStore[k].state

\* C13: the stored user_id of a trip is the id of the requester who created
\* it, and no trip endpoint call changes it.
C13_OwnerNeverChanges ==
    [][/\ last'.op = "create_trip" /\ last'.status = 201
          => trips'[last'.key].user_id = get_current_user.id
       /\ \A t \in TripIds :
              (trips[t] # NoDoc /\ trips'[t] # NoDoc) => trips'[t].user_id = trips[t].user_id]_vars

\* the handlers of the trip router that change a trip
TripMutatingOps ==
    {"update_trip", "delete_trip", "add_activity_to_day", "update_activity", "delete_activity",
     "add_budget_item", "update_budget_item", "delete_budget_item",
     "add_city_to_trip", "remove_city_from_trip"}

\* C12: every trip-mutating request for a trip the store does not hold is
\* answered 404, every such request for a stored trip of another user (the
\* store read succeeding) is answered 403, and neither changes the trips
\* collection.
C12_MutationGate ==
    [][last'.op \in TripMutatingOps
       => /\ TripAbsent(trips, last'.key) => (last'.status = 404 /\ trips' = trips)
          /\ (NonOwnerTrip(trips, last'.key) /\ last'.calls[1].ok)
                => (last'.status = 403 /\ trips' = trips)]_vars

C12_Witness ==
    /\ last.op = "add_budget_item"
    /\ last.status = 403
    /\ NonOwnerTrip(trips, last.key)
    /\ trips[last.key].budget = <<>>

\* C14: for a requester whose is_admin flag is false, POST, PUT and DELETE on
\* /api/cities are answered 403 with no store call made and leave the cities
\* collection unchanged.
C14_AdminOnly ==
    [][(last'.op \in {"create_city", "update_city", "delete_city"} /\ ~get_current_user.is_admin)
       => /\ last'.status = 403
          /\ last'.calls = <<>>
          /\ cities' = cities]_vars

C14_Witness ==
    /\ last.op = "update_city"
    /\ last.status = 403
    /\ ~CityAbsent(cities, last.key)
    /\ cities[last.key].updated_at = "utcnow"

\* a record keeps every field outside named and updated_at
KeepsUnnamedFields(before, after, named) ==
    /\ DOMAIN before \subseteq DOMAIN after
    /\ \A f \in DOMAIN before \ (named \cup {"updated_at"}) : after[f] = before[f]

\* the records of a list at the positions outside targets are as before, and
\* those at the positions in targets keep their unnamed fields
KeepsOtherItems(before, after, targets, named) ==
    /\ Len(after) = Len(before)
    /\ \A i \in 1..Len(before) :
           IF i \in targets THEN KeepsUnnamedFields(before[i], after[i], named)
           ELSE after[i] = before[i]

UpdateTripFrame(before, after, p) == KeepsUnnamedFields(before, after, p.fields_set)

\* the target is the first budget item whose id is arg.item_id
UpdateBudgetItemFrame(before, after, arg) ==
    LET targets == IF HasBudgetItem(before, arg.item_id)
                   THEN {FirstBudgetItem(before, arg.item_id)} ELSE {}
    IN  /\ KeepsUnnamedFields(before, after, {"budget"})
        /\ KeepsOtherItems(before.budget, after.budget, targets, DOMAIN arg.data)

\* the targets are the activities arg.activity_id of the day arg.day_date
UpdateActivityFrame(before, after, arg) ==
    /\ KeepsUnnamedFields(before, after, {"itinerary"})
    /\ Len(after.itinerary) = Len(before.itinerary)
    /\ \A i \in 1..Len(before.itinerary) :
           LET acts == before.itinerary[i].activities
               targets == IF HasDay(before, arg.day_date) /\ i = FirstDay(before, arg.day_date)
                          THEN {j \in 1..Len(acts) : acts[j].id = arg.activity_id} ELSE {}
           IN  /\ after.itinerary[i].date = before.itinerary[i].date
               /\ KeepsOtherItems(acts, after.itinerary[i].activities, targets, DOMAIN arg.data)

\* C15: after update_trip, update_budget_item, update_activity or update_city
\* every field of the target record that the update data does not name is as
\* before, apart from updated_at, every other nested record of the trip is as
\* before, and no other trip or city changes.
C15_PartialUpdateFrame ==
    [][/\ last'.op \in {"update_trip", "update_budget_item", "update_activity"}
          => /\ \A t \in TripIds \ {last'.key} : trips'[t] = trips[t]
             /\ (IsObjectId(last'.key) /\ trips[last'.key] # NoDoc)
                   => /\ trips'[last'.key] # NoDoc
                      /\ last'.op = "update_trip"
                            => UpdateTripFrame(trips[last'.key], trips'[last'.key], last'.arg)
                      /\ last'.op = "update_budget_item"
                            => UpdateBudgetItemFrame(trips[last'.key], trips'[last'.key], last'.arg)
                      /\ last'.op = "update_activity"
                            => UpdateActivityFrame(trips[last'.key], trips'[last'.key], last'.arg)
       /\ last'.op = "repo_update_city"
          => /\ \A c \in CityIds \ {last'.key} : cities'[c] = cities[c]
             /\ ~CityAbsent(cities, last'.key)
                   => /\ cities'[last'.key] # NoDoc
                      /\ KeepsUnnamedFields(cities[last'.key], cities'[last'.key],
                                            DOMAIN last'.arg)]_vars

\* the number of times x occurs in a list
Occurrences(seq, x) == Cardinality({i \in 1..Len(seq) : seq[i] = x})

\* no call of the method is in progress
Quiet(op) == \A p \in Procs : tasks[p].op # op

\* C16: when the concurrent calls of a method have all returned, the stored
\* document is the one a serial run of them leaves: the conversation holds
\* every appended message once for each append, the trip holds every added
\* budget item once for each add, and the city holds every updated field.
C16_ConcurrentCallsAreSerializable ==
    /\ Quiet("append_message")
          => \A m \in Msgs :
                 Occurrences(StoredMessages(convStore, "k1"), m) = Occurrences(acks.append, m)
    /\ (Quiet("add_budget_item") /\ trips["t1"] # NoDoc)
          => \A b \in BudgetItems :
                 Occurrences(trips["t1"].budget, b) = Occurrences(acks.budget, b)
    /\ Quiet("update_city")
          => \A d \in acks.city : \A f \in DOMAIN d : cities["c1"][f] = d[f]

\* C17: under every interleaving of concurrent add_to_blacklist and
\* remove_from_blacklist calls each collection holds at most one record for
\* one owner, normalized name and type.
C17_OneRecordPerKey ==
    /\ \A e \in BagToSet(blacklist) : CopiesIn(e, blacklist) <= 1
    /\ \A e \in BagToSet(admin_blacklist) : CopiesIn(e, admin_blacklist) <= 1

\* C18: after a chat turn answered 200 for the conversation id k the store
\* holds a conversation k, and a get(k) whose calls all succeed returns a
\* state whose messages include the user's message.
C18_ChatTurnIsStored ==
    [][(last'.op = "chat" /\ last'.status = 200)
       => LET k == last'.key
              later == repo_get(convStore', convCache', k, TRUE, TRUE, TRUE)
          IN  /\ convStore'[k] # NoDoc
              /\ later.result # None
              /\ \E i \in 1..Len(later.result.messages) :
                     later.result.messages[i] = last'.arg.message]_vars

\* the cache after the entry of k has run out of its time-to-live
Expired(cache, k) == [cache EXCEPT ![k] = NoEntry]

\* C19: once upsert, create_conversation or append_message has written k, so
\* that get(k) returns a state, get(k) still returns a state after the cache
\* entry of k has expired.
C19_WrittenSurvivesExpiry ==
    [][(/\ last'.op \in {"upsert", "create_conversation", "append_message"}
        /\ repo_get(convStore', convCache', last'.key, TRUE, TRUE, TRUE).result # None)
       => repo_get(convStore', Expired(convCache', last'.key), last'.key, TRUE, TRUE, TRUE).result
             # None]_vars

\* C20: after POST /api/conversations with the id k, the state s and the user
\* u, the store and the cache answering, the store holds a document for k
\* with the state s and the user_id u, and list_by_user(u) includes k.
C20_CreatedConversationIsStored ==
    [][LET k == last'.key
           reachable == repo_create_conversation(convStore, convCache, k, last'.arg, "u1", TRUE, TRUE)
           rows == repo_list_by_user(convStore', "u1", TRUE)
       IN  (/\ last'.op = "create_conversation"
            /\ convStore[k] = NoDoc
            /\ convStore' = reachable.store
            /\ convCache' = reachable.cache)
           => /\ convStore'[k] # NoDoc
              /\ convStore'[k].state = last'.arg
              /\ convStore'[k].user_id = "u1"
              /\ \E i \in 1..Len(rows) : rows[i].conversation_id = k]_vars

\* the requests that write to the document store
StoreWritingOps ==
    {"upsert", "create_conversation", "delete", "clear", "append_message",
     "create_trip", "update_trip", "delete_trip", "add_activity_to_day", "delete_city"}

\* C21: a conversation, trip or city request one of whose store calls raised
\* is answered with an error status, never as a success.
C21_StoreFailureIsAnError ==
    [][(last'.op \in StoreWritingOps /\ ~NoFailedStoreCall(last'))
       => last'.status >= 400]_vars

\* C22: when process_message returns a response carrying a synthesized trip
\* plan, the chat answer's trip_plan is that plan and the history entry
\* recorded for the turn holds it as trip_data.
C22_PlanReachesAnswerAndHistory ==
    [][(/\ last'.op = "chat"
        /\ last'.status = 200
        /\ last'.arg.response.trip_plan # None)
       => /\ last'.result.trip_plan = last'.arg.response.trip_plan
          /\ last'.calls[1].ok
                => LET history == user_contexts'[last'.arg.user_id].conversation_history
                   IN  history[Len(history)].trip_data = last'.arg.response.trip_plan]_vars

\* the stored history of a user; no document is the empty history
HistoryOf(store, user_id) ==
    IF store[user_id] = NoDoc THEN <<>> ELSE store[user_id].conversation_history

\* C23: whatever update_conversation_history and save_user_context calls are
\* made for a user, the stored conversation_history has at most 50 entries and
\* they are the most recently added ones in order: a call either leaves the
\* history as it is or adds one entry at its end, cut to the last 50.
C23_HistoryIsTheLatestEntries ==
    [][\A u \in ChatUsers :
          LET before == HistoryOf(user_contexts, u)
              after == HistoryOf(user_contexts', u)
          IN  /\ Len(after) <= HISTORY_SLICE
              /\ \/ after = before
                 \/ /\ after # <<>>
                    /\ after = LastN(Append(before, after[Len(after)]), HISTORY_SLICE)]_vars

\* the nodes that returned are the first nodes of the graph, in its order
InGraphOrder(trace) ==
    /\ Len(trace) <= Len(WorkflowNodes)
    /\ \A i \in 1..Len(trace) : trace[i] = WorkflowNodes[i]

\* the name current_step holds after the nodes of trace returned
StepAfter(trace) ==
    IF Len(trace) = 0 THEN "start"
    ELSE IF Len(trace) < Len(WorkflowNodes) THEN WorkflowNodes[Len(trace) + 1]
    ELSE "completed"

\* C24: every run of the workflow graph executes the eight steps start,
\* destination_selection, weather_check, hotel_search, route_planning,
\* budget_estimation, itinerary_generation, finalize once each in that order,
\* current_step naming the next step after each one, and ends with all eight
\* executed and current_step = 'completed'.
C24_EveryRunExecutesTheEightSteps ==
    /\ [](flow.node # "idle" => /\ InGraphOrder(flow.trace)
                                /\ flow.current_step = StepAfter(flow.trace))
    /\ [](flow.node = EntryPoint
             => <>(/\ flow.node = "END"
                   /\ flow.trace = WorkflowNodes
                   /\ flow.current_step = "completed"))

\* the handles of one kind constructed so far
HandlesOf(kind) == {h \in 1..Len(clients.handles) : clients.handles[h].kind = kind}

\* C25: between process start and shutdown one document-store client handle and
\* one cache client handle are constructed, never more of either kind (every
\* repository and service uses the memoized handle of db.py), and after
\* close_connections at shutdown no constructed handle is left open.
C25_OneHandlePerStoreAndAllClosed ==
    /\ Cardinality(HandlesOf("mongo")) <= 1
    /\ Cardinality(HandlesOf("redis")) <= 1
    /\ clients.phase = "serving"
          => Cardinality(HandlesOf("mongo")) = 1 /\ Cardinality(HandlesOf("redis")) = 1
    /\ clients.phase = "stopped" => \A h \in 1..Len(clients.handles) : ~clients.handles[h].open

\* C26: with the store and the cache reachable and no call failing, for every
\* interleaving of concurrent upsert calls, and of upsert calls with get calls
\* that miss the cache, on a key, once every call has returned the cache entry
\* of the key, if there is one, holds the state of the store's document.
C26_CacheAgreesWithStoreWhenQuiet ==
    (/\ \A p \in Procs : tasks[p] = Idle
     /\ convStore["k1"] # NoDoc
     /\ convCache["k1"] # NoEntry)
        => json_loads(convCache["k1"].val) = DocState(convStore["k1"])

\* the call made the initializing write: update_one with $set of the state
TookInitializingWrite(l) == \E i \in 1..Len(l.calls) : l.calls[i].c = "update_one"

\* C27: append_message(k, m) takes the initializing write only when the store
\* has no document for k or its state has no messages list; in every other
\* case, a failed first push attempt included, the messages already stored and
\* the other keys of the state are still stored after the call, and the state
\* returned ends with m.
C27_AppendKeepsStoredState ==
    [][(last'.op = "append_message" /\ HasMessagesArray(convStore, last'.key))
       => LET k == last'.key
              before == convStore[k].state
          IN  /\ ~TookInitializingWrite(last')
              /\ convStore'[k] # NoDoc
              /\ convStore'[k].state.context = before.context
              /\ Len(StoredMessages(convStore', k)) >= Len(before.messages)
              /\ SubSeq(StoredMessages(convStore', k), 1, Len(before.messages)) = before.messages
              /\ ~last'.raised
                    => last'.result.messages[Len(last'.result.messages)] = last'.arg.message]_vars

\* C28: after delete(k) returned True, get(k) returns absent until the next
\* upsert, create_conversation or append_message on k, also when the store's
\* delete call failed: a get right after the delete, every call of it
\* succeeding, finds nothing.
C28_DeletedStaysAbsent ==
    [][/\ (last'.op = "delete" /\ last'.result = Bool(TRUE))
          => repo_get(convStore', convCache', last'.key, TRUE, TRUE, TRUE).result = None
       /\ (/\ last.op = "delete"
           /\ last.result = Bool(TRUE)
           /\ last'.op = "get"
           /\ last'.key = last.key
           /\ NoFailedCall(last'))
          => last'.result = None]_vars

\* C30: POST /api/conversations/{id}/clear answers 404 only when the store
\* holds no conversation with that id; for every stored conversation, one
\* whose state is already empty included, it answers success and a get of the
\* id afterwards returns the empty state.
C30_ClearOfStoredConversationSucceeds ==
    [][last'.op = "clear"
       => /\ last'.status = 404 => convStore[last'.key] = NoDoc
          /\ convStore[last'.key] # NoDoc
                => /\ last'.status = 200
                   /\ repo_get(convStore', convCache', last'.key, TRUE, TRUE, TRUE).result
                          = EmptyState]_vars

\* the trip holds the nested record the delete request names
HoldsNamedRecord(doc, l) ==
    CASE l.op = "delete_activity" ->
             /\ HasDay(doc, l.arg.day_date)
             /\ DayHasActivity(doc.itinerary[FirstDay(doc, l.arg.day_date)], l.arg.activity_id)
      [] l.op = "delete_budget_item" -> HasBudgetItem(doc, l.arg.item_id)
      [] l.op = "remove_city_from_trip" ->
             \E i \in 1..Len(TripCities(doc)) : TripCities(doc)[i].city_id = l.arg.city_id

\* C29: delete_activity, delete_budget_item and remove_city_from_trip return
\* True, and the endpoint answers success, exactly when a nested record with
\* the given id was removed; when the trip holds none with that id they return
\* False, the endpoint answers with an error, and the nested collections of
\* the trip are unchanged.  Stated for the requests that reach the store write
\* with the write succeeding.
C29_DeleteReportsWhatItRemoved ==
    [][(/\ last'.op \in {"delete_activity", "delete_budget_item", "remove_city_from_trip"}
        /\ Len(last'.calls) = 2
        /\ NoFailedCall(last'))
       => LET before == trips[last'.key]
              after == trips'[last'.key]
              held == HoldsNamedRecord(before, last')
          IN  /\ last'.status = 204 <=> held
              /\ held => ~HoldsNamedRecord(after, last')
              /\ ~held => /\ last'.status >= 400
                          /\ after.itinerary = before.itinerary
                          /\ after.budget = before.budget
                          /\ TripCities(after) = TripCities(before)]_vars

====
